---------------------------- MODULE Spec2Model ----------------------------
(***************************************************************************)
(* Model of the spec-to-tool mapping and invocation engine of              *)
(* mcp-openapi-proxy: tool-name normalisation, endpoint whitelisting,      *)
(* registry construction, operation lookup, base-URL resolution and        *)
(* request dispatch.                                                       *)
(*                                                                         *)
(* Python strings are modelled as sequences of one-character strings, so   *)
(* that the string algorithms of the source (regular expressions, split,   *)
(* strip, slicing, str.format) are computed character by character.        *)
(***************************************************************************)
EXTENDS Integers, Sequences, FiniteSets, TLC

VARIABLES
    env,                \* os.environ: the configuration variables the engine reads
    openapi_spec_data,  \* server_lowlevel.openapi_spec_data: the loaded spec, or None
    tools,              \* server_lowlevel.tools: the process-wide registry (a list)
    ret,                \* the last completed call: its name, inputs and returned value
    sent                \* the HTTP requests issued by the last dispatch, in order

vars == <<env, openapi_spec_data, tools, ret, sent>>

\* Python's None and Optional values: the empty tuple for None, <<v>> for v
None == <<>>
Some(v) == <<v>>

-----------------------------------------------------------------------------
(* Python string primitives over character sequences.                      *)

Min(a, b) == IF a < b THEN a ELSE b
Max(a, b) == IF a > b THEN a ELSE b

\* s[n:] for n >= 0
Drop(s, n) == SubSeq(s, n + 1, Len(s))

\* s[:n] for any integer n (a negative n counts from the end, as Python does)
Take(s, n) == IF n >= 0 THEN SubSeq(s, 1, Min(n, Len(s)))
              ELSE SubSeq(s, 1, Max(0, Len(s) + n))

\* s.startswith(p)
StartsWith(s, p) == Len(p) <= Len(s) /\ SubSeq(s, 1, Len(p)) = p

\* c in s, for a character c
Contains(s, c) == \E i \in 1..Len(s) : s[i] = c

\* s.lstrip(chars), s.rstrip(chars), s.strip(chars) for a set of characters
First(indices) == CHOOSE i \in indices : \A j \in indices : i <= j
Last(indices) == CHOOSE i \in indices : \A j \in indices : i >= j

LStrip(s, chars) ==
    IF \A i \in 1..Len(s) : s[i] \in chars THEN <<>>
    ELSE SubSeq(s, First({i \in 1..Len(s) : s[i] \notin chars}), Len(s))

RStrip(s, chars) ==
    IF \A i \in 1..Len(s) : s[i] \in chars THEN <<>>
    ELSE SubSeq(s, 1, Last({i \in 1..Len(s) : s[i] \notin chars}))

Strip(s, chars) == RStrip(LStrip(s, chars), chars)

\* s.split(sep) for a one-character separator: "a//b" gives ["a", "", "b"],
\* and the empty string gives [""]
SplitPos(s, at, k) ==
    IF k = 0 THEN 0
    ELSE IF k = Cardinality(at) + 1 THEN Len(s) + 1
    ELSE CHOOSE p \in at : Cardinality({q \in at : q < p}) = k - 1
SplitAt(s, at) ==
    [k \in 1..(Cardinality(at) + 1) |->
        SubSeq(s, SplitPos(s, at, k - 1) + 1, SplitPos(s, at, k) - 1)]
Split(s, sep) == SplitAt(s, {i \in 1..Len(s) : s[i] = sep})

\* s.split(sep, 1): at most one split, at the first separator
Split1(s, sep) ==
    IF ~Contains(s, sep) THEN <<s>>
    ELSE <<SubSeq(s, 1, First({i \in 1..Len(s) : s[i] = sep}) - 1),
           Drop(s, First({i \in 1..Len(s) : s[i] = sep}))>>

\* sep.join(parts)
RECURSIVE Join(_, _)
Join(parts, sep) ==
    IF parts = <<>> THEN <<>>
    ELSE IF Len(parts) = 1 THEN parts[1]
    ELSE parts[1] \o sep \o Join(Tail(parts), sep)

\* s.replace(c, d) for characters c in a set, each replaced by d
ReplaceChars(s, cs, d) == [i \in 1..Len(s) |-> IF s[i] \in cs THEN d ELSE s[i]]

UpperCase == <<"A","B","C","D","E","F","G","H","I","J","K","L","M",
               "N","O","P","Q","R","S","T","U","V","W","X","Y","Z">>
LowerCase == <<"a","b","c","d","e","f","g","h","i","j","k","l","m",
               "n","o","p","q","r","s","t","u","v","w","x","y","z">>
Digits    == <<"0","1","2","3","4","5","6","7","8","9">>

Range(f) == {f[i] : i \in DOMAIN f}

LowerChar(c) ==
    IF c \in Range(UpperCase)
    THEN LowerCase[CHOOSE i \in 1..Len(UpperCase) : UpperCase[i] = c]
    ELSE c
UpperChar(c) ==
    IF c \in Range(LowerCase)
    THEN UpperCase[CHOOSE i \in 1..Len(LowerCase) : LowerCase[i] = c]
    ELSE c

\* s.lower(), s.upper()
Lower(s) == [i \in 1..Len(s) |-> LowerChar(s[i])]
Upper(s) == [i \in 1..Len(s) |-> UpperChar(s[i])]

\* The characters a whitespace strip() removes
WhiteSpace == {" ", "\t", "\n"}

-----------------------------------------------------------------------------
(* utils.normalize_tool_name                                               *)

UNKNOWN_TOOL == <<"u","n","k","n","o","w","n","_","t","o","o","l">>
ROOT == <<"r","o","o","t">>
BY_SEP == <<"_","b","y","_">>

\* The alternatives of the pattern /(api|rest|public)/?
UrlPrefixWords == { <<"a","p","i">>, <<"r","e","s","t">>, <<"p","u","b","l","i","c">> }

\* Length of the match of /(api|rest|public)/? at the head of s; 0 when it
\* does not match there.  No alternative is a prefix of another, so at most
\* one of them matches; the trailing slash is taken when present (greedy ?).
WithOptionalSlash(s, n) == IF n < Len(s) /\ s[n + 1] = "/" THEN n + 1 ELSE n
PrefixMatchLen(s) ==
    IF s = <<>> \/ Head(s) # "/" THEN 0
    ELSE IF \A w \in UrlPrefixWords : ~StartsWith(Tail(s), w) THEN 0
    ELSE WithOptionalSlash(s, 1 + Len(CHOOSE w \in UrlPrefixWords : StartsWith(Tail(s), w)))

\* re.sub(r"/(api|rest|public)/?", "/", path): every non-overlapping match,
\* left to right and anywhere in the path, is replaced by one slash
RECURSIVE StripUrlPrefixes(_)
ReplaceMatchAt(s, i) ==
    SubSeq(s, 1, i - 1) \o <<"/">>
    \o StripUrlPrefixes(Drop(s, i - 1 + PrefixMatchLen(Drop(s, i - 1))))
StripUrlPrefixes(s) ==
    IF \A i \in 1..Len(s) : PrefixMatchLen(Drop(s, i - 1)) = 0 THEN s
    ELSE ReplaceMatchAt(s, First({i \in 1..Len(s) : PrefixMatchLen(Drop(s, i - 1)) > 0}))

\* Index of the last character of the match of \{([^}]+)\} that starts at
\* index i of s; 0 when the pattern does not match at i.  [^}]+ stops at the
\* first closing brace and needs at least one character.
NonEmptyMatch(i, j) == IF j >= i + 2 THEN j ELSE 0
TemplateMatchEnd(s, i) ==
    IF s[i] # "{" THEN 0
    ELSE IF \A j \in (i + 1)..Len(s) : s[j] # "}" THEN 0
    ELSE NonEmptyMatch(i, First({j \in (i + 1)..Len(s) : s[j] = "}"}))

\* One left-to-right scan of s for \{([^}]+)\}: params is findall(s), base is
\* sub("", s)
RECURSIVE TemplateScan(_, _, _, _)
TakeMatchAt(s, i, k, params, base) ==
    TemplateScan(s, TemplateMatchEnd(s, k) + 1,
                 Append(params, SubSeq(s, k + 1, TemplateMatchEnd(s, k) - 1)),
                 base \o SubSeq(s, i, k - 1))
TemplateScan(s, i, params, base) ==
    IF \A k \in i..Len(s) : TemplateMatchEnd(s, k) = 0
    THEN [params |-> params, base |-> base \o SubSeq(s, i, Len(s))]
    ELSE TakeMatchAt(s, i, First({k \in i..Len(s) : TemplateMatchEnd(s, k) > 0}),
                     params, base)

url_template_findall(s) == TemplateScan(s, 1, <<>>, <<>>).params
url_template_strip(s) == TemplateScan(s, 1, <<>>, <<>>).base

\* The body of the loop over path.split("/"): the normalised part
NamedPart(part, params) ==
    IF params # <<>>
    THEN url_template_strip(part) \o BY_SEP
         \o Join([i \in 1..Len(params) |-> Lower(params[i])], <<"_">>)
    ELSE part
NormalizePart(part) ==
    ReplaceChars(NamedPart(part, url_template_findall(part)), {".", "-", "+"}, "_")

\* re.sub(r"_+", "_", s) on s[lo..hi]: an underscore that follows an
\* underscore is dropped
RECURSIVE CollapseRange(_, _, _)
CollapseRange(s, lo, hi) ==
    IF lo > hi THEN <<>>
    ELSE IF lo = hi
    THEN IF s[lo] = "_" /\ lo > 1 /\ s[lo - 1] = "_" THEN <<>> ELSE <<s[lo]>>
    ELSE CollapseRange(s, lo, (lo + hi) \div 2)
         \o CollapseRange(s, (lo + hi) \div 2 + 1, hi)

\* re.sub(r"_+", "_", s)
CollapseUnderscores(s) == CollapseRange(s, 1, Len(s))

\* The name before the prefix and the length cap are applied (lines 33-61)
OrRoot(path) == IF path = <<>> THEN ROOT ELSE path
NormalizedParts(parts) ==
    SelectSeq([i \in 1..Len(parts) |-> NormalizePart(parts[i])], LAMBDA p : p # <<>>)
\* lines 37-61, from the path that re.sub returned
MethodAndStripped(method, stripped) ==
    Strip(CollapseUnderscores(
              Lower(method) \o <<"_">>
              \o Join(NormalizedParts(
                          Split(OrRoot(RStrip(LStrip(stripped, {"/"}), {"/"})), "/")),
                      <<"_">>)),
          {"_"})
MethodAndPath(method, path) == MethodAndStripped(method, StripUrlPrefixes(path))
BaseToolName(raw_name) ==
    MethodAndPath(Split1(raw_name, " ")[1], Split1(raw_name, " ")[2])

\* An Optional[int]: the empty tuple for None, <<n>> for the integer n
NoInt == <<>>
SomeInt(n) == <<n>>

DigitValue(c) == (CHOOSE i \in 1..Len(Digits) : Digits[i] = c) - 1

RECURSIVE DigitsValue(_)
DigitsValue(s) ==
    IF s = <<>> THEN 0
    ELSE 10 * DigitsValue(SubSeq(s, 1, Len(s) - 1)) + DigitValue(s[Len(s)])

\* int(s) for a decimal literal with an optional sign; NoInt stands for the
\* ValueError that any other text raises
SignedDigits(t, body) ==
    IF body = <<>> \/ \E i \in 1..Len(body) : body[i] \notin Range(Digits)
    THEN NoInt
    ELSE IF t[1] = "-" THEN SomeInt(0 - DigitsValue(body))
    ELSE SomeInt(DigitsValue(body))
Unsigned(t) == IF t # <<>> /\ t[1] \in {"-", "+"} THEN Tail(t) ELSE t
ParseInt(s) == SignedDigits(Strip(s, WhiteSpace), Unsigned(Strip(s, WhiteSpace)))

PROTOCOL_MAX_LENGTH == 64

\* The custom cap in force (lines 68-80): the max_length argument when given,
\* else TOOL_NAME_MAX_LENGTH when it parses to a positive integer, else None
PositiveOrNone(parsed) == IF parsed # NoInt /\ parsed[1] > 0 THEN parsed ELSE NoInt
EffectiveMaxLength(max_length) ==
    IF max_length # NoInt THEN max_length
    ELSE IF env.TOOL_NAME_MAX_LENGTH = <<>> THEN NoInt
    ELSE PositiveOrNone(ParseInt(env.TOOL_NAME_MAX_LENGTH))

\* A limit that lets a custom cap above the protocol cap through
LimitOfCustomFirst(effective_max_length) ==
    IF effective_max_length # NoInt
    THEN [limit |-> effective_max_length[1], source |-> "custom"]
    ELSE [limit |-> PROTOCOL_MAX_LENGTH, source |-> "protocol"]

\* final_limit and limit_source (lines 86-96)
LimitOf(effective_max_length) ==
    IF effective_max_length # NoInt /\ effective_max_length[1] < PROTOCOL_MAX_LENGTH
    THEN [limit |-> effective_max_length[1], source |-> "custom"]
    ELSE [limit |-> PROTOCOL_MAX_LENGTH,
          source |-> IF effective_max_length = NoInt THEN "protocol"
                     ELSE "protocol (custom limit was)"]
FinalLimit(max_length) == LimitOf(EffectiveMaxLength(max_length))

\* The whole function: the returned name, and the truncation warning it logs
Truncate(full, fl) ==
    IF Len(full) > fl.limit
    THEN [name |-> Take(full, fl.limit), full |-> full, warning |-> fl.source]
    ELSE [name |-> full, full |-> full, warning |-> "none"]
NormalizeToolName(raw_name, max_length) ==
    IF ~Contains(raw_name, " ")
    THEN [name |-> UNKNOWN_TOOL, full |-> UNKNOWN_TOOL, warning |-> "malformed"]
    ELSE Truncate(env.TOOL_NAME_PREFIX \o BaseToolName(raw_name), FinalLimit(max_length))

normalize_tool_name(raw_name, max_length) == NormalizeToolName(raw_name, max_length).name

\* re.match(TOOL_NAME_REGEX, name) with TOOL_NAME_REGEX = ^[a-zA-Z0-9_-]{1,64}$
NameChars == Range(UpperCase) \cup Range(LowerCase) \cup Range(Digits) \cup {"_", "-"}
MatchesToolNameRegex(name) ==
    /\ Len(name) >= 1
    /\ Len(name) <= 64
    /\ \A i \in 1..Len(name) : name[i] \in NameChars

-----------------------------------------------------------------------------
(* utils.is_tool_whitelisted                                               *)

\* The compiled form of ([^/]+) in a pattern: any other item is a literal
\* character
WILD == "[^/]+"

\* re.sub(r"\{[^}]+\}", r"([^/]+)", re.escape(entry)) as a sequence of items.
\* re.escape only adds backslashes, which make every other character match
\* itself, and a brace that is left over is a literal in Python's re.
RECURSIVE CompileEntry(_, _)
CompileEntry(s, i) ==
    IF i > Len(s) THEN <<>>
    ELSE LET j == TemplateMatchEnd(s, i)
         IN  IF j > 0 THEN <<WILD>> \o CompileEntry(s, j + 1)
             ELSE <<s[i]>> \o CompileEntry(s, i + 1)

\* A placeholder compiled to (.+) instead of ([^/]+): it may span segments
RECURSIVE PatternMatchesAcrossSlash(_, _)
PatternMatchesAcrossSlash(items, s) ==
    IF items = <<>> THEN s = <<>> \/ Head(s) = "/"
    ELSE IF Head(items) = WILD
    THEN \E n \in 1..Len(s) : PatternMatchesAcrossSlash(Tail(items), Drop(s, n))
    ELSE /\ s # <<>>
         /\ Head(s) = Head(items)
         /\ PatternMatchesAcrossSlash(Tail(items), Tail(s))

\* re.match("^" + pattern + "($|/.*)", s): the items match a prefix of s that
\* ends at the end of s or before a slash
RECURSIVE PatternMatches(_, _)
PatternMatches(items, s) ==
    IF items = <<>> THEN s = <<>> \/ Head(s) = "/"
    ELSE IF Head(items) = WILD
    THEN \E n \in 1..Len(s) :
            /\ \A k \in 1..n : s[k] # "/"
            /\ PatternMatches(Tail(items), Drop(s, n))
    ELSE s # <<>> /\ Head(s) = Head(items) /\ PatternMatches(Tail(items), Tail(s))

\* A literal comparison without the segment boundary: plain startswith
EntryAllowsAnyPrefix(entry, normalized_endpoint) ==
    LET normalized_entry == <<"/">> \o Strip(entry, {"/"})
    IN  IF Contains(normalized_entry, "{") /\ Contains(normalized_entry, "}")
        THEN PatternMatches(CompileEntry(normalized_entry, 1), normalized_endpoint)
        ELSE StartsWith(normalized_endpoint, normalized_entry)

\* The body of the loop over the entries (lines 344-366): does this entry
\* allow the normalised endpoint
EntryAllows(entry, normalized_endpoint) ==
    LET normalized_entry == <<"/">> \o Strip(entry, {"/"})
    IN  IF Contains(normalized_entry, "{") /\ Contains(normalized_entry, "}")
        THEN PatternMatches(CompileEntry(normalized_entry, 1), normalized_endpoint)
        ELSE /\ StartsWith(normalized_endpoint, normalized_entry)
             /\ \/ normalized_endpoint = normalized_entry
                \/ StartsWith(normalized_endpoint, normalized_entry \o <<"/">>)

\* A loop that consults the first entry only
FirstEntryOnly(entries, normalized_endpoint) ==
    entries # <<>> /\ EntryAllows(Head(entries), normalized_endpoint)

\* The loop: the first entry that allows the endpoint returns True
RECURSIVE WhitelistLoop(_, _)
WhitelistLoop(entries, normalized_endpoint) ==
    IF entries = <<>> THEN FALSE
    ELSE IF EntryAllows(Head(entries), normalized_endpoint) THEN TRUE
    ELSE WhitelistLoop(Tail(entries), normalized_endpoint)

\* [entry.strip() for entry in whitelist_str.split(",") if entry.strip()]
WhitelistEntries(whitelist_str) ==
    LET raw == Split(whitelist_str, ",")
    IN  SelectSeq([i \in 1..Len(raw) |-> Strip(raw[i], WhiteSpace)],
                  LAMBDA e : e # <<>>)

\* is_tool_whitelisted with TOOL_WHITELIST given explicitly
IsToolWhitelisted(whitelist, endpoint) ==
    LET whitelist_str == Strip(whitelist, WhiteSpace)
    IN  IF whitelist_str = <<>> THEN TRUE
        ELSE WhitelistLoop(WhitelistEntries(whitelist_str),
                           <<"/">> \o Strip(endpoint, {"/"}))

is_tool_whitelisted(endpoint) == IsToolWhitelisted(env.TOOL_WHITELIST, endpoint)

-----------------------------------------------------------------------------
(* Bounded inputs: strings are concatenations of a few tokens.             *)

MaxTokens == 3

LongSegment == [i \in 1..30 |-> "x"]

\* Concatenations of at most n tokens of the set T
RECURSIVE Concats(_, _)
Concats(T, n) ==
    IF n = 0 THEN { <<>> }
    ELSE LET shorter == Concats(T, n - 1)
         IN  shorter \cup {s \o t : s \in shorter, t \in T}

PathTokens == { <<"/">>, <<"/","a","p","i">>, <<"/","u">>, <<"u">>,
                <<"{","I","d","}">>, <<"{">>, <<"-">>, <<":">>, LongSegment }

Paths == Concats(PathTokens, MaxTokens)

Methods == { <<"G","E","T">>, <<"P","u","t">> }

\* "<METHOD> <path>", the malformed names that have no space, and the names
\* whose method is empty
RawNames == {m \o <<" ">> \o p : m \in Methods, p \in Paths}
            \cup Methods \cup Concats(PathTokens, 1)
            \cup {<<" ">> \o p : p \in Concats(PathTokens, 1)}

EnvDefault == [TOOL_WHITELIST |-> <<>>, TOOL_NAME_PREFIX |-> <<>>,
               TOOL_NAME_MAX_LENGTH |-> <<>>, SERVER_URL_OVERRIDE |-> <<>>,
               STRIP_PARAM |-> <<>>, API_KEY |-> <<>>, API_AUTH_TYPE |-> <<>>,
               API_AUTH_HEADER |-> <<>>, EXTRA_HEADERS |-> <<>>,
               API_KEY_JMESPATH |-> <<>>]

NamePrefixes == { <<>>, <<"p","_">> }
MaxLengthEnvs == { <<>>, <<"7">>, <<"7","0">>, <<"-","1">>, <<"x">> }
MaxLengthArgs == { NoInt, SomeInt(5) }

NormalizeEnvs ==
    {[EnvDefault EXCEPT !.TOOL_NAME_MAX_LENGTH = m] : m \in MaxLengthEnvs}
    \cup {[EnvDefault EXCEPT !.TOOL_NAME_PREFIX = p] : p \in NamePrefixes}

InitIdle ==
    /\ openapi_spec_data = None
    /\ tools = <<>>
    /\ ret = [op |-> "init"]
    /\ sent = <<>>

-----------------------------------------------------------------------------
(* Specification of normalize_tool_name as a pure function of its input    *)
(* and the configuration.                                                  *)

InitNormalize ==
    /\ env \in NormalizeEnvs
    /\ InitIdle

CallNormalize ==
    /\ ret.op = "init"
    /\ \E raw \in RawNames, ml \in MaxLengthArgs :
        /\ ret' = [op |-> "normalize_tool_name", raw_name |-> raw, max_length |-> ml,
                   out |-> NormalizeToolName(raw, ml)]
        /\ UNCHANGED <<env, openapi_spec_data, tools, sent>>

NextNormalize == CallNormalize

SpecNormalize == InitNormalize /\ [][NextNormalize]_vars

\* C1: for every input "<METHOD> <path>" and every configuration, the name
\* normalize_tool_name returns matches ^[A-Za-z0-9_-]{1,64}$ and is no longer
\* than min(customCap or 64, 64).
CustomCapOr64 ==
    LET cap == EffectiveMaxLength(ret.max_length)
    IN  IF cap = NoInt THEN 64 ELSE cap[1]

C1_NameMatchesPattern ==
    (ret.op = "normalize_tool_name" /\ Contains(ret.raw_name, " "))
    => /\ MatchesToolNameRegex(ret.out.name)
       /\ Len(ret.out.name) <= Min(CustomCapOr64, 64)

-----------------------------------------------------------------------------
(* Specification of is_tool_whitelisted as a function of TOOL_WHITELIST    *)
(* and the endpoint.                                                       *)

MaxRuleTokens == 3
MaxEndpointTokens == 3
MaxRules == 2

RuleTokens == { <<"/">>, <<"/","a">>, <<"a">>, <<"/","{","x","}">>, <<"{","x","}">> }
EndpointTokens == { <<"/">>, <<"/","a">>, <<"/","b">>, <<"a">> }

\* Single rules
Rules == Concats(RuleTokens, MaxRuleTokens) \ { <<>> }
\* The paths asked about: a path of an OpenAPI document starts with a slash
Endpoints == {e \in Concats(EndpointTokens, MaxEndpointTokens) :
                e # <<>> /\ e[1] = "/"}

\* Rules that lists are made of, and the separators written between them
ListRules == { <<"/","a">>, <<"/","b","/">>, <<"/","a","/","{","x","}">>, <<"a","/","b">> }
Separators == { <<",">>, <<",", " ">> }

RECURSIVE RuleLists(_)
RuleLists(n) ==
    IF n = 0 THEN { <<>> }
    ELSE LET shorter == RuleLists(n - 1)
         IN  shorter \cup {Append(l, r) : l \in shorter, r \in ListRules}

\* A list of rules written as one TOOL_WHITELIST value
RECURSIVE WriteList(_, _)
WriteList(rules, sep) ==
    IF rules = <<>> THEN <<>>
    ELSE IF Len(rules) = 1 THEN rules[1]
    ELSE rules[1] \o sep \o WriteList(Tail(rules), sep)

Whitelists ==
    Rules \cup {WriteList(l, sep) : l \in RuleLists(MaxRules), sep \in Separators}
    \cup { <<>>, <<" ">>, <<",">> }

InitWhitelist ==
    /\ env \in {[EnvDefault EXCEPT !.TOOL_WHITELIST = w] : w \in Whitelists}
    /\ InitIdle

CallWhitelisted ==
    /\ ret.op = "init"
    /\ \E endpoint \in Endpoints :
        ret' = [op |-> "is_tool_whitelisted", endpoint |-> endpoint,
                out |-> is_tool_whitelisted(endpoint)]
    /\ UNCHANGED <<env, openapi_spec_data, tools, sent>>

NextWhitelist == CallWhitelisted

SpecWhitelist == InitWhitelist /\ [][NextWhitelist]_vars

\* The single rule the whitelist consists of, when it is one of Rules
IsLiteralRule(w) == w \in Rules /\ ~Contains(w, "{") /\ ~Contains(w, "}")
IsPlaceholderRule(w) == w \in Rules /\ Contains(w, "{")

\* The segments of a rule or path once its leading and trailing slashes are
\* removed
Segments(s) == Split(Strip(s, {"/"}), "/")

IsPrefixOf(a, b) == Len(a) <= Len(b) /\ SubSeq(b, 1, Len(a)) = a

\* C6 as stated: under a literal rule R a path is allowed exactly when it
\* equals R or starts with R followed by "/".
C6_LiteralRuleAsStated ==
    (ret.op = "is_tool_whitelisted" /\ IsLiteralRule(env.TOOL_WHITELIST))
    => (ret.out <=> \/ ret.endpoint = env.TOOL_WHITELIST
                    \/ StartsWith(ret.endpoint, env.TOOL_WHITELIST \o <<"/">>))

\* C6 (amended): under a literal rule R a path is allowed exactly when, with
\* the leading and trailing slashes of both removed, the path equals R or
\* starts with R followed by "/": the segments of R are the leading segments
\* of the path.
C6_LiteralRule ==
    (ret.op = "is_tool_whitelisted" /\ IsLiteralRule(env.TOOL_WHITELIST))
    => (ret.out <=> IsPrefixOf(Segments(env.TOOL_WHITELIST), Segments(ret.endpoint)))

\* A literal rule allows a path that neither equals it nor starts with it
\* followed by "/" (the slashes at the ends differ)
C6_Witness ==
    /\ ret.op = "is_tool_whitelisted"
    /\ IsLiteralRule(env.TOOL_WHITELIST)
    /\ ret.out
    /\ ret.endpoint # env.TOOL_WHITELIST
    /\ ~StartsWith(ret.endpoint, env.TOOL_WHITELIST \o <<"/">>)

\* A rule segment that is one placeholder and nothing else
IsPlaceholder(seg) ==
    Len(seg) >= 3 /\ seg[1] = "{" /\ seg[Len(seg)] = "}"
    /\ \A i \in 2..(Len(seg) - 1) : seg[i] \notin {"{", "}"}

\* Each segment of the rule is a literal or one placeholder
WholeSegmentRule(rule) ==
    \A i \in 1..Len(Split(rule, "/")) :
        LET seg == Split(rule, "/")[i]
        IN  IsPlaceholder(seg) \/ (~Contains(seg, "{") /\ ~Contains(seg, "}"))

\* C7 as stated: from the start of the path, its segments match the segments
\* of the rule, a placeholder matching exactly one non-empty segment, and
\* further segments may follow.
SegmentsMatchAsStated(rule, path) ==
    LET rs == Split(rule, "/")
        ps == Split(path, "/")
    IN  /\ Len(rs) <= Len(ps)
        /\ \A i \in 1..Len(rs) :
              IF IsPlaceholder(rs[i]) THEN ps[i] # <<>> ELSE ps[i] = rs[i]

C7_PlaceholderRuleAsStated ==
    (/\ ret.op = "is_tool_whitelisted"
     /\ IsPlaceholderRule(env.TOOL_WHITELIST)
     /\ WholeSegmentRule(env.TOOL_WHITELIST))
    => (ret.out <=> SegmentsMatchAsStated(env.TOOL_WHITELIST, ret.endpoint))

\* The placeholders and literal characters of one rule segment, in order
RECURSIVE SegmentItems(_)
SegmentItems(seg) ==
    IF seg = <<>> THEN <<>>
    ELSE IF Head(seg) = "{" /\ Contains(seg, "}")
    THEN LET close == CHOOSE k \in 1..Len(seg) :
                          seg[k] = "}" /\ \A l \in 1..(k - 1) : seg[l] # "}"
         IN  <<"placeholder">> \o SegmentItems(Drop(seg, close))
    ELSE <<Head(seg)>> \o SegmentItems(Tail(seg))

\* A path segment matches a rule segment: it is cut into consecutive
\* non-empty pieces, one per item, each literal's piece being that character
SegmentMatches(rseg, pseg) ==
    LET items == SegmentItems(rseg)
        n     == Len(items)
    IN  IF n = 0 THEN pseg = <<>>
        ELSE \E cut \in [1..n -> 1..Len(pseg)] :
                /\ cut[n] = Len(pseg)
                /\ \A i \in 1..n :
                      LET from == IF i = 1 THEN 0 ELSE cut[i - 1]
                      IN  /\ cut[i] > from
                          /\ items[i] # "placeholder"
                             => (cut[i] = from + 1 /\ pseg[cut[i]] = items[i])

\* C7 (amended): with the leading and trailing slashes of the rule and of the
\* path removed, the leading segments of the path match the segments of the
\* rule one for one, a literal by equality and a placeholder by a non-empty
\* run of characters inside one segment; further segments may follow.
C7_PlaceholderRule ==
    (ret.op = "is_tool_whitelisted" /\ IsPlaceholderRule(env.TOOL_WHITELIST))
    => (ret.out <=>
          LET rs == Segments(env.TOOL_WHITELIST)
              ps == Segments(ret.endpoint)
          IN  /\ Len(rs) <= Len(ps)
              /\ \A i \in 1..Len(rs) : SegmentMatches(rs[i], ps[i]))

\* A placeholder rule with a trailing slash allows a path that has a further
\* segment after the ones the rule matches
C7_Witness ==
    /\ ret.op = "is_tool_whitelisted"
    /\ IsPlaceholderRule(env.TOOL_WHITELIST)
    /\ WholeSegmentRule(env.TOOL_WHITELIST)
    /\ ret.out
    /\ ~SegmentsMatchAsStated(env.TOOL_WHITELIST, ret.endpoint)
    /\ Len(Segments(ret.endpoint)) > Len(Segments(env.TOOL_WHITELIST))

\* C8: an unset or empty whitelist allows every path; a list of rules allows
\* a path exactly when one of its rules, taken alone, allows it, whatever the
\* order of the rules.
C8_AnyRuleOfTheList ==
    ret.op = "is_tool_whitelisted"
    => /\ Strip(env.TOOL_WHITELIST, WhiteSpace) = <<>> => ret.out
       /\ \A l \in RuleLists(MaxRules), sep \in Separators :
             (l # <<>> /\ env.TOOL_WHITELIST = WriteList(l, sep))
             => (ret.out <=> \E i \in 1..Len(l) : IsToolWhitelisted(l[i], ret.endpoint))

\* A list whose first rule rejects the path and whose second rule allows it
C8_Witness ==
    /\ ret.op = "is_tool_whitelisted"
    /\ ret.out
    /\ \E l \in RuleLists(MaxRules), sep \in Separators :
          /\ Len(l) >= 2
          /\ env.TOOL_WHITELIST = WriteList(l, sep)
          /\ ~IsToolWhitelisted(l[1], ret.endpoint)
          /\ IsToolWhitelisted(l[2], ret.endpoint)

(* The server: the specification document, the registry, the dispatchers.  *)
-----------------------------------------------------------------------------
(* Python dicts and lists.  A dict is the list of its items [k, v] in      *)
(* insertion order, with distinct keys.                                    *)

InSeq(x, s) == \E i \in 1..Len(s) : s[i] = x

\* flatten a list of lists
RECURSIVE SeqConcat(_)
SeqConcat(ss) == IF ss = <<>> THEN <<>> ELSE Head(ss) \o SeqConcat(Tail(ss))

DictKeys(d) == [i \in 1..Len(d) |-> d[i].k]
DictHas(d, key) == \E i \in 1..Len(d) : d[i].k = key
DictGet(d, key) == d[CHOOSE i \in 1..Len(d) : d[i].k = key].v
\* d[key] = value: an existing key keeps its position
DictSet(d, key, value) ==
    IF DictHas(d, key)
    THEN [i \in 1..Len(d) |-> IF d[i].k = key THEN [k |-> key, v |-> value] ELSE d[i]]
    ELSE Append(d, [k |-> key, v |-> value])
\* d.pop(key, None)
DictPop(d, key) == SelectSeq(d, LAMBDA e : e.k # key)

-----------------------------------------------------------------------------
(* The OpenAPI document.  spec["paths"] is a dict from path to path item;  *)
(* a path item is a dict whose values are operations (dicts) under the     *)
(* HTTP-verb keys and a list under the key "parameters".  A parameter is   *)
(* [name, in, required, type], where type is its schema.type.              *)

V_get == <<"g","e","t">>
V_post == <<"p","o","s","t">>
V_put == <<"p","u","t">>
V_delete == <<"d","e","l","e","t","e">>
V_patch == <<"p","a","t","c","h">>
V_options == <<"o","p","t","i","o","n","s">>
V_head == <<"h","e","a","d">>
V_trace == <<"t","r","a","c","e">>
K_parameters == <<"p","a","r","a","m","e","t","e","r","s">>

\* the verb lists of server_lowlevel.py and server_fastmcp.py, and of openapi.py
LowlevelVerbs == {V_get, V_post, V_put, V_delete, V_patch}
OpenapiVerbs == LowlevelVerbs \cup {V_options, V_head, V_trace}

\* isinstance(value, dict) for a value of a path item
IsDict(value) == "list" \notin DOMAIN value

\* "paths" not in spec, and "not spec", for an Optional document
HasPaths(spec) == spec # None /\ spec[1].paths # None
IsEmptyDict(doc) ==
    /\ doc.paths = None
    /\ doc.servers = None
    /\ doc.host = None
    /\ doc.schemes = None
    /\ doc.basePath = None
NotSpec(spec) == spec = None \/ IsEmptyDict(spec[1])

\* [(path, method, operation) for path, path_item in paths.items()
\*                            for method, operation in path_item.items()]
ItemsOf(entry) ==
    [i \in 1..Len(entry.v) |->
        [path |-> entry.k, method |-> entry.v[i].k, operation |-> entry.v[i].v,
         path_item |-> entry.v]]
AllItems(paths) == SeqConcat([i \in 1..Len(paths) |-> ItemsOf(paths[i])])

\* f"{method.upper()} {path}"
RawName(method, path) == Upper(method) \o <<" ">> \o path

\* {path: item for path, item in spec["paths"].items() if is_tool_whitelisted(path)}
FilteredPaths(paths) == SelectSeq(paths, LAMBDA e : is_tool_whitelisted(e.k))

-----------------------------------------------------------------------------
(* server_lowlevel.register_functions and lookup_operation_details.        *)
(* A registered tool is [name, inputSchema]; the description is left out.  *)
(* Its fields path and method are history: the (path, method) the name was *)
(* derived from, which the Tool object of the source does not keep.        *)

\* [part.strip("{}") for part in path.split("/") if "{" in part and "}" in part]
placeholder_params(path) ==
    LET parts == SelectSeq(Split(path, "/"),
                           LAMBDA part : Contains(part, "{") /\ Contains(part, "}"))
    IN  [i \in 1..Len(parts) |-> Strip(parts[i], {"{", "}"})]

\* lines 353-358: "type": "object", "properties": {}, "required": [],
\* "additionalProperties": False
EmptySchema ==
    [type |-> "object", properties |-> <<>>, required |-> <<>>,
     additionalProperties |-> FALSE]

\* input_schema['properties'][...] = ... and input_schema['required'].append(...)
SchemaWith(schema, properties, required) ==
    [schema EXCEPT !.properties = properties, !.required = required]

\* lines 361-366: every placeholder is a required string property
RECURSIVE AddPlaceholders(_, _)
AddPlaceholders(schema, names) ==
    IF names = <<>> THEN schema
    ELSE AddPlaceholders(
            SchemaWith(schema,
                       DictSet(schema.properties, Head(names), [type |-> "string"]),
                       Append(schema.required, Head(names))),
            Tail(names))

\* lines 368-379: the declared path and query parameters
RECURSIVE AddParameters(_, _, _)
AddParameters(schema, params, types) ==
    IF params = <<>> THEN schema
    ELSE LET param == Head(params)
             schema_type == IF param.type \in types THEN param.type ELSE "string"
         IN  IF param.in \in {"path", "query"}
             THEN AddParameters(
                    SchemaWith(schema,
                               DictSet(schema.properties, param.name,
                                       [type |-> schema_type]),
                               IF param.required /\ ~InSeq(param.name, schema.required)
                               THEN Append(schema.required, param.name)
                               ELSE schema.required),
                    Tail(params), types)
             ELSE AddParameters(schema, Tail(params), types)

LowlevelTypes == {"string", "integer", "boolean", "number"}

\* lines 350-385: the tool built for one operation
LowlevelTool(it) ==
    [name |-> normalize_tool_name(RawName(it.method, it.path), NoInt),
     inputSchema |-> AddParameters(AddPlaceholders(EmptySchema, placeholder_params(it.path)),
                                   it.operation.parameters, LowlevelTypes),
     path |-> it.path,
     method |-> Upper(it.method)]

\* The list server_lowlevel.register_functions(spec) leaves in tools
lowlevel_register_functions(spec) ==
    IF NotSpec(spec) \/ ~HasPaths(spec) THEN <<>>
    ELSE LET ops == SelectSeq(AllItems(FilteredPaths(spec[1].paths[1])),
                              LAMBDA it : Lower(it.method) \in LowlevelVerbs)
         IN  [i \in 1..Len(ops) |-> LowlevelTool(ops[i])]

\* The first operation, in iteration order, that satisfies match; None if none
FirstItem(items, match(_)) ==
    LET hits == {i \in 1..Len(items) : match(items[i])}
    IN  IF hits = {} THEN None
        ELSE LET i == CHOOSE k \in hits : \A j \in hits : k <= j
             IN  Some([path |-> items[i].path, method |-> Upper(items[i].method),
                       key |-> items[i].method,
                       operation |-> items[i].operation,
                       original_path |-> items[i].path])

\* server_lowlevel.lookup_operation_details(function_name, spec)
lowlevel_lookup_operation_details(function_name, spec) ==
    IF NotSpec(spec) \/ ~HasPaths(spec) THEN None
    ELSE FirstItem(AllItems(spec[1].paths[1]),
                   LAMBDA it :
                      /\ Lower(it.method) \in LowlevelVerbs
                      /\ normalize_tool_name(RawName(it.method, it.path), NoInt)
                            = function_name)

-----------------------------------------------------------------------------
(* openapi.register_functions and lookup_operation_details.                *)

OpenapiTypes == LowlevelTypes \cup {"array"}

\* path_item.get("parameters", [])
PathLevelParameters(path_item) ==
    IF DictHas(path_item, K_parameters) THEN DictGet(path_item, K_parameters).list
    ELSE <<>>

\* lines 202-203: the parameters by name, those of the operation replacing
\* those of the path item of the same name
RECURSIVE ParamsByName(_, _)
ParamsByName(d, params) ==
    IF params = <<>> THEN d
    ELSE ParamsByName(DictSet(d, Head(params).name, Head(params)), Tail(params))

AllParams(it) ==
    LET d == ParamsByName(ParamsByName(<<>>, PathLevelParameters(it.path_item)),
                          it.operation.parameters)
    IN  [i \in 1..Len(d) |-> d[i].v]

\* lines 236-244: the placeholders of the template, after the declared ones
RECURSIVE AddTemplateParams(_, _)
AddTemplateParams(schema, names) ==
    IF names = <<>> THEN schema
    ELSE LET tp_name == Head(names)
         IN  AddTemplateParams(
                SchemaWith(schema,
                           IF DictHas(schema.properties, tp_name)
                           THEN schema.properties
                           ELSE DictSet(schema.properties, tp_name, [type |-> "string"]),
                           IF InSeq(tp_name, schema.required) THEN schema.required
                           ELSE Append(schema.required, tp_name)),
                Tail(names))

\* lines 248-263: the properties of an application/json object body
RECURSIVE AddRequired(_, _)
AddRequired(required, names) ==
    IF names = <<>> THEN required
    ELSE AddRequired(IF InSeq(Head(names), required) THEN required
                     ELSE Append(required, Head(names)),
                     Tail(names))

RECURSIVE UpdateProperties(_, _)
UpdateProperties(properties, names) ==
    IF names = <<>> THEN properties
    ELSE UpdateProperties(DictSet(properties, Head(names), [type |-> "body"]),
                          Tail(names))

AddRequestBody(schema, requestBody) ==
    IF requestBody = None THEN schema
    ELSE SchemaWith(schema,
                    UpdateProperties(schema.properties, requestBody[1].properties),
                    AddRequired(schema.required, requestBody[1].required))

OpenapiTool(it) ==
    [name |-> normalize_tool_name(RawName(it.method, it.path), NoInt),
     inputSchema |->
        AddRequestBody(
            AddTemplateParams(AddParameters(EmptySchema, AllParams(it), OpenapiTypes),
                              url_template_findall(it.path)),
            it.operation.requestBody),
     path |-> it.path,
     method |-> Upper(it.method)]

\* lines 159-283: the loop over the operations, with the names seen so far
RECURSIVE OpenapiRegisterLoop(_, _)
OpenapiRegisterLoop(ops, tools_list) ==
    IF ops = <<>> THEN tools_list
    ELSE LET it == Head(ops)
             function_name == normalize_tool_name(RawName(it.method, it.path), NoInt)
         IN  IF ~MatchesToolNameRegex(function_name)
             THEN OpenapiRegisterLoop(Tail(ops), tools_list)
             ELSE IF \E i \in 1..Len(tools_list) : tools_list[i].name = function_name
             THEN OpenapiRegisterLoop(Tail(ops), tools_list)
             ELSE OpenapiRegisterLoop(Tail(ops), Append(tools_list, OpenapiTool(it)))

\* The list openapi.register_functions(spec) returns and copies into
\* server_lowlevel.tools
openapi_register_functions(spec) ==
    IF NotSpec(spec) \/ ~HasPaths(spec) THEN <<>>
    ELSE OpenapiRegisterLoop(
            SelectSeq(AllItems(FilteredPaths(spec[1].paths[1])),
                      LAMBDA it : Lower(it.method) \in OpenapiVerbs /\ IsDict(it.operation)),
            <<>>)

\* lines 132-151: the returns that precede the loop, for no spec, no "paths"
\* and no whitelisted path
OpenapiReturnsEarly(spec) ==
    \/ NotSpec(spec)
    \/ ~HasPaths(spec)
    \/ FilteredPaths(spec[1].paths[1]) = <<>>

\* lines 289-293: server_lowlevel.tools after openapi.register_functions(spec),
\* which copies its list into it only when it reaches the end of the function
PublishedTools(current, spec) ==
    IF OpenapiReturnsEarly(spec) THEN current ELSE openapi_register_functions(spec)

\* openapi.lookup_operation_details(function_name, spec)
openapi_lookup_operation_details(function_name, spec) ==
    IF NotSpec(spec) \/ ~HasPaths(spec) THEN None
    ELSE FirstItem(AllItems(spec[1].paths[1]),
                   LAMBDA it :
                      /\ Lower(it.method) \in OpenapiVerbs
                      /\ IsDict(it.operation)
                      /\ LET current_function_name ==
                                normalize_tool_name(RawName(it.method, it.path), NoInt)
                         IN  /\ MatchesToolNameRegex(current_function_name)
                             /\ current_function_name = function_name)
-----------------------------------------------------------------------------
(* utils.build_base_url, handle_auth, get_additional_headers and           *)
(* strip_parameters.  An environment variable that is unset is the empty   *)
(* string of env: the code treats both alike, except for API_AUTH_TYPE,    *)
(* whose unset value stands for "Bearer".                                  *)

S_http == <<"h","t","t","p",":","/","/">>
S_https == <<"h","t","t","p","s",":","/","/">>
S_scheme_sep == <<":","/","/">>

IsAbsoluteHttpUrl(url) == StartsWith(url, S_http) \/ StartsWith(url, S_https)

\* build_base_url without the override: the spec's first server only
build_base_url_servers_only(doc) ==
    IF /\ doc.servers # None
       /\ doc.servers[1] # <<>>
       /\ doc.servers[1][1].url # None
       /\ doc.servers[1][1].url[1] # <<>>
    THEN Some(doc.servers[1][1].url[1])
    ELSE None

\* utils.build_base_url(spec) for a document (a dict); None or Some(url)
build_base_url(doc) ==
    LET override == env.SERVER_URL_OVERRIDE
    IN  IF override # <<>>
        THEN LET raw == Split(override, ",")
                 urls == [i \in 1..Len(raw) |-> Strip(raw[i], WhiteSpace)]
                 valid == {i \in 1..Len(urls) : IsAbsoluteHttpUrl(urls[i])}
             IN  IF valid = {} THEN None
                 ELSE Some(urls[CHOOSE i \in valid : \A j \in valid : i <= j])
        ELSE IF /\ doc.servers # None
                /\ doc.servers[1] # <<>>
                /\ doc.servers[1][1].url # None
                /\ doc.servers[1][1].url[1] # <<>>
        THEN Some(doc.servers[1][1].url[1])
        ELSE IF doc.host # None /\ doc.schemes # None
        THEN LET scheme == IF doc.schemes[1] # <<>> THEN doc.schemes[1][1]
                           ELSE <<"h","t","t","p","s">>
                 base_path == IF doc.basePath = None THEN <<>> ELSE doc.basePath[1]
                 host == doc.host[1]
             IN  IF host # <<>> THEN Some(scheme \o S_scheme_sep \o host \o base_path)
                 ELSE None
        ELSE None

H_Authorization == <<"A","u","t","h","o","r","i","z","a","t","i","o","n">>
H_ContentType == <<"C","o","n","t","e","n","t","-","T","y","p","e">>
S_application_json == <<"a","p","p","l","i","c","a","t","i","o","n","/","j","s","o","n">>
S_Bearer == <<"B","e","a","r","e","r"," ">>

\* A handle_auth that knows no API_AUTH_HEADER
handle_authFixedHeader(operation) ==
    LET api_key == env.API_KEY
        auth_type == IF env.API_AUTH_TYPE = <<>> THEN <<"b","e","a","r","e","r">>
                     ELSE Lower(env.API_AUTH_TYPE)
    IN  IF api_key = <<>> THEN <<>>
        ELSE IF auth_type = <<"b","e","a","r","e","r">>
        THEN DictSet(<<>>, H_Authorization, S_Bearer \o api_key)
        ELSE IF auth_type = <<"a","p","i","-","k","e","y">>
        THEN DictSet(<<>>, H_Authorization, api_key)
        ELSE <<>>

\* utils.handle_auth(operation): the headers dict
handle_auth(operation) ==
    LET api_key == env.API_KEY
        auth_type == IF env.API_AUTH_TYPE = <<>> THEN <<"b","e","a","r","e","r">>
                     ELSE Lower(env.API_AUTH_TYPE)
    IN  IF api_key = <<>> THEN <<>>
        ELSE IF auth_type = <<"b","e","a","r","e","r">>
        THEN DictSet(<<>>, H_Authorization, S_Bearer \o api_key)
        ELSE IF auth_type = <<"a","p","i","-","k","e","y">>
        THEN DictSet(<<>>,
                     IF env.API_AUTH_HEADER = <<>> THEN H_Authorization
                     ELSE env.API_AUTH_HEADER,
                     api_key)
        ELSE <<>>

\* the loop of get_additional_headers over the lines of EXTRA_HEADERS
RECURSIVE ExtraHeaderLines(_, _)
ExtraHeaderLines(headers, lines) ==
    IF lines = <<>> THEN headers
    ELSE LET line == Strip(Head(lines), WhiteSpace)
             kv == Split1(line, ":")
             key == Strip(kv[1], WhiteSpace)
             value == Strip(kv[2], WhiteSpace)
         IN  IF Contains(line, ":") /\ key # <<>> /\ value # <<>>
             THEN ExtraHeaderLines(DictSet(headers, key, value), Tail(lines))
             ELSE ExtraHeaderLines(headers, Tail(lines))

\* utils.get_additional_headers()
get_additional_headers ==
    IF env.EXTRA_HEADERS = <<>> THEN <<>>
    ELSE ExtraHeaderLines(<<>>, Split(env.EXTRA_HEADERS, "\n"))

\* {**headers, **additional_headers}
RECURSIVE DictUpdate(_, _)
DictUpdate(d, other) ==
    IF other = <<>> THEN d
    ELSE DictUpdate(DictSet(d, Head(other).k, Head(other).v), Tail(other))

\* utils.strip_parameters(parameters)
strip_parameters(parameters) ==
    IF env.STRIP_PARAM = <<>> THEN parameters
    ELSE DictPop(parameters, env.STRIP_PARAM)

-----------------------------------------------------------------------------
(* str.format with the parameters as keywords, on a path template whose replacement fields    *)
(* are plain names.  The result is [kind, path, key]: "ok" with the        *)
(* formatted path, "KeyError" with the first field that has no argument,   *)
(* or "ValueError" / "IndexError" for a malformed template.                *)

FormatResult(kind, path, key) == [kind |-> kind, path |-> path, key |-> key]

RECURSIVE FormatFrom(_, _, _, _)
FormatFrom(s, i, parameters, acc) ==
    IF i > Len(s) THEN FormatResult("ok", acc, <<>>)
    ELSE IF s[i] = "{"
    THEN IF i < Len(s) /\ s[i + 1] = "{"
         THEN FormatFrom(s, i + 2, parameters, Append(acc, "{"))
         ELSE LET closes == {j \in (i + 1)..Len(s) : s[j] = "}"}
              IN  IF closes = {} THEN FormatResult("ValueError", <<>>, <<>>)
                  ELSE LET j == CHOOSE k \in closes : \A l \in closes : k <= l
                           field == SubSeq(s, i + 1, j - 1)
                       IN  IF field = <<>> \/ \A k \in 1..Len(field) : field[k] \in Range(Digits)
                           THEN FormatResult("IndexError", <<>>, <<>>)
                           ELSE IF DictHas(parameters, field)
                           THEN FormatFrom(s, j + 1, parameters,
                                           acc \o DictGet(parameters, field))
                           ELSE FormatResult("KeyError", <<>>, field)
    ELSE IF s[i] = "}"
    THEN IF i < Len(s) /\ s[i + 1] = "}"
         THEN FormatFrom(s, i + 2, parameters, Append(acc, "}"))
         ELSE FormatResult("ValueError", <<>>, <<>>)
    ELSE FormatFrom(s, i + 1, parameters, Append(acc, s[i]))

Format(path, parameters) == FormatFrom(path, 1, parameters, <<>>)

\* [seg.strip("{}") for seg in original_path.split("/")
\*                  if seg.startswith("{") and seg.endswith("}")]
placeholder_keys(original_path) ==
    LET segs == SelectSeq(Split(original_path, "/"),
                          LAMBDA seg : seg # <<>> /\ seg[1] = "{" /\ seg[Len(seg)] = "}")
    IN  [i \in 1..Len(segs) |-> Strip(segs[i], {"{", "}"})]

RECURSIVE PopAll(_, _)
PopAll(d, keys) == IF keys = <<>> THEN d ELSE PopAll(DictPop(d, Head(keys)), Tail(keys))

\* f"{base_url.rstrip('/')}/{path.lstrip('/')}"
ApiUrl(base_url, path) == RStrip(base_url, {"/"}) \o <<"/">> \o LStrip(path, {"/"})
-----------------------------------------------------------------------------
(* server_lowlevel.dispatcher_handler.  A dispatch is computed as          *)
(* [out, spec, sent]: the CallToolResult returned (its text as a message   *)
(* and the names it lists, and isError), the loaded spec after the call,   *)
(* and the HTTP requests issued.  The answer of the downstream API is an   *)
(* input: "ok", "error_status" (raise_for_status raises) or                *)
(* "connection_error" (requests.request raises).                           *)

GET == <<"G","E","T">>

HttpAnswers == {"ok", "error_status", "connection_error"}

Result(text, detail) == [text |-> text, detail |-> detail, isError |-> FALSE]

Outcome(out, spec, requests) == [out |-> out, spec |-> spec, sent |-> requests]

\* operation["method"] = method, on the operation object inside the spec
SetOperationMethod(spec, path, key, method) ==
    LET paths == spec[1].paths[1]
        SetIn(item) == [j \in 1..Len(item) |->
                          IF item[j].k = key
                          THEN [k |-> key, v |-> [item[j].v EXCEPT !.method = Some(method)]]
                          ELSE item[j]]
    IN  Some([spec[1] EXCEPT !.paths =
                Some([i \in 1..Len(paths) |->
                        IF paths[i].k = path THEN [k |-> path, v |-> SetIn(paths[i].v)]
                        ELSE paths[i]])])

\* lines 150-161: the declared required path parameters that the arguments lack
MergedParams(spec, original_path, operation) ==
    LET paths == spec[1].paths[1]
        path_item == IF DictHas(paths, original_path) THEN DictGet(paths, original_path)
                     ELSE <<>>
    IN  PathLevelParameters(path_item) \o operation.parameters

MissingRequired(merged_params, arguments) ==
    LET missing == SelectSeq(merged_params,
                             LAMBDA param : /\ param.in = "path"
                                            /\ param.required
                                            /\ ~DictHas(arguments, param.name))
    IN  [i \in 1..Len(missing) |-> missing[i].name]

\* A request that carries its parameters in the query for every method
RequestQueryOnly(method, url, headers, parameters) ==
    [method |-> method, url |-> url, headers |-> headers,
     params |-> Some(parameters), json |-> None]

\* lines 183-190: the request handed to requests.request
Request(method, url, headers, parameters) ==
    [method |-> method, url |-> url, headers |-> headers,
     params |-> IF method = GET THEN Some(parameters) ELSE None,
     json |-> IF method # GET THEN Some(parameters) ELSE None]

\* A dispatch up to its HTTP call: either it is done, with a result and no
\* request, or it holds the request to send
Done(out, spec) == [done |-> TRUE, out |-> out, spec |-> spec]
Pending(request, spec) == [done |-> FALSE, request |-> request, spec |-> spec]

\* The answers the downstream API can give to a prepared dispatch
AnswersTo(prepared) == IF prepared.done THEN {"not asked"} ELSE HttpAnswers

\* The response bodies: a JSON number, a JSON array written with a space,
\* text that is not JSON and is surrounded by whitespace, and no body
Bodies == {<<"7">>, <<"["," ","]">>, <<" ", "o", "k", "\n">>, <<>>}
BodiesOf(http) == IF http \in {"ok", "error_status"} THEN Bodies ELSE {<<>>}

\* json.dumps(json.loads(s)) for the JSON documents among the bodies, a
\* number and an empty array; None stands for the JSONDecodeError that
\* json.loads raises on the other bodies
IsJsonNumber(s) ==
    /\ s # <<>>
    /\ \A i \in 1..Len(s) : s[i] \in Range(Digits)
    /\ Len(s) > 1 => s[1] # "0"
IsJsonEmptyArray(s) ==
    /\ Len(s) >= 2
    /\ s[1] = "[" /\ s[Len(s)] = "]"
    /\ \A i \in 2..(Len(s) - 1) : s[i] \in WhiteSpace
\* json.dumps(json.loads(s)) on a stripped body: numbers, NaN (accepted only
\* when allow_nan), arrays of at most one element and two objects; None
\* stands for the JSONDecodeError
S_NaN == <<"N","a","N">>
B_object == <<"{","\"","a","\"",":","1","}">>
B_object_dumped == <<"{","\"","a","\"",":"," ","1","}">>
B_text_content == <<"{","\"","t","y","p","e","\"",":","\"","t","e","x","t","\"",",","\"","t","e","x","t","\"",":","\"","k","\"","}">>
B_text_content_dumped == <<"{","\"","t","y","p","e","\"",":"," ","\"","t","e","x","t","\"",","," ","\"","t","e","x","t","\"",":"," ","\"","k","\"","}">>
B_text_content_text == <<"k">>
RECURSIVE JsonValue(_, _)
JsonElement(inner, allow_nan) ==
    IF JsonValue(Strip(inner, WhiteSpace), allow_nan) = None THEN None
    ELSE Some(<<"[">> \o JsonValue(Strip(inner, WhiteSpace), allow_nan)[1] \o <<"]">>)
JsonValue(s, allow_nan) ==
    IF IsJsonNumber(s) THEN Some(s)
    ELSE IF IsJsonEmptyArray(s) THEN Some(<<"[","]">>)
    ELSE IF s = S_NaN THEN (IF allow_nan THEN Some(s) ELSE None)
    ELSE IF s = B_object THEN Some(B_object_dumped)
    ELSE IF s = B_text_content THEN Some(B_text_content_dumped)
    ELSE IF Len(s) >= 3 /\ s[1] = "[" /\ s[Len(s)] = "]"
    THEN JsonElement(SubSeq(s, 2, Len(s) - 1), allow_nan)
    ELSE None
JsonDumpsOf(s) == JsonValue(s, TRUE)
JsonDumpsLoads(s) == JsonDumpsOf(Strip(s, WhiteSpace))

\* utils.detect_response_type: the text of the TextContent and the kind logged
Classified(response_text, dumped) ==
    IF dumped # None THEN [text |-> dumped[1], kind |-> "json"]
    ELSE [text |-> Strip(response_text, WhiteSpace), kind |-> "text"]
\* lines 271-279: a decoded dict with "type": "text" and a "text" is returned
\* as the TextContent it describes
IsTextContent(response_text) == Strip(response_text, WhiteSpace) = B_text_content
detect_response_type(response_text) ==
    IF IsTextContent(response_text)
    THEN [text |-> B_text_content_text, kind |-> "passthrough"]
    ELSE Classified(response_text, JsonDumpsLoads(response_text))

\* lines 192-195: (response.text or "No response body").strip(), classified
S_no_response_body == <<"N","o"," ","r","e","s","p","o","n","s","e"," ","b","o","d","y">>
ResponseContent(body) ==
    detect_response_type(Strip(IF body = <<>> THEN S_no_response_body ELSE body,
                               WhiteSpace))

\* lines 178-203: the call and the result made of its answer
\* An Execute stage that sends a failed request a second time
ExecuteWithRetry(prepared, http, body) ==
    IF prepared.done THEN Outcome(prepared.out, prepared.spec, <<>>)
    ELSE Outcome(CASE http = "connection_error" -> Result("RequestException", <<>>)
                   [] http = "error_status" -> Result("HTTPError", <<>>)
                   [] OTHER -> Result("response content", <<ResponseContent(body).text>>),
                 prepared.spec,
                 IF http = "ok" THEN <<prepared.request>>
                 ELSE <<prepared.request, prepared.request>>)

Execute(prepared, http, body) ==
    IF prepared.done THEN Outcome(prepared.out, prepared.spec, <<>>)
    ELSE Outcome(CASE http = "connection_error" -> Result("RequestException", <<>>)
                   [] http = "error_status" -> Result("HTTPError", <<>>)
                   [] OTHER -> Result("response content", <<ResponseContent(body).text>>),
                 prepared.spec, <<prepared.request>>)

\* lines 117-203, once the operation is found
DispatchOperation(details, arguments) ==
    LET spec == SetOperationMethod(openapi_spec_data, details.original_path,
                                   details.key, details.method)
        operation == [details.operation EXCEPT !.method = Some(details.method)]
        method == details.method
        headers0 == DictUpdate(handle_auth(operation), get_additional_headers)
        stripped == strip_parameters(arguments)
        headers == IF method # GET
                   THEN DictSet(headers0, H_ContentType, S_application_json)
                   ELSE headers0
        formatted == Format(details.path, stripped)
        parameters == IF method = GET
                      THEN PopAll(stripped, placeholder_keys(details.original_path))
                      ELSE stripped
        base_url == build_base_url(spec[1])
        missing_required == MissingRequired(
                                MergedParams(spec, details.original_path, operation),
                                arguments)
    IN  IF formatted.kind = "KeyError"
        THEN Done(Result("Missing parameter", <<formatted.key>>), spec)
        ELSE IF formatted.kind # "ok"
        THEN Done(Result("Internal error", <<>>), spec)
        ELSE IF base_url = None
        THEN Done(Result("No base URL defined in spec or SERVER_URL_OVERRIDE", <<>>), spec)
        ELSE IF missing_required # <<>>
        THEN Done(Result("Missing required path parameters", missing_required), spec)
        ELSE Pending(Request(method, ApiUrl(base_url[1], formatted.path), headers,
                             parameters),
                     spec)

\* lines 97-203 of dispatcher_handler for request.params.name and
\* request.params.arguments, given the value of
\* lookup_operation_details(function_name, openapi_spec_data)
PrepareDispatch(function_name, operation_details, arguments) ==
    IF ~\E i \in 1..Len(tools) : tools[i].name = function_name
    THEN Done(Result("Unknown function requested", <<>>), openapi_spec_data)
    ELSE IF openapi_spec_data = None
    THEN Done([text |-> "OpenAPI spec not loaded", detail |-> <<>>, isError |-> TRUE],
              openapi_spec_data)
    ELSE IF operation_details = None
    THEN Done(Result("Could not find OpenAPI operation for function", <<function_name>>),
              openapi_spec_data)
    ELSE DispatchOperation(operation_details[1], arguments)

-----------------------------------------------------------------------------
(* server_fastmcp.call_function.  It fetches the spec anew on every call   *)
(* (the document of the configured source, here the loaded one), finds the *)
(* operation itself, and returns a string: the response text or a JSON     *)
(* object {"error": ...}.  The built-in names that are answered before the *)
(* spec is fetched (list_resources, read_resource, list_prompts,           *)
(* get_prompt) are not among the names asked for.                          *)

\* lines 314-325: "{name}" replaced by the value, for every argument whose
\* placeholder occurs in the path; [path, removed]
RECURSIVE ReplaceAll(_, _, _)
ReplaceAll(s, old, new) ==
    IF Len(s) < Len(old) THEN s
    ELSE IF SubSeq(s, 1, Len(old)) = old
    THEN new \o ReplaceAll(Drop(s, Len(old)), old, new)
    ELSE <<Head(s)>> \o ReplaceAll(Tail(s), old, new)

Occurs(s, sub) == \E i \in 1..(Len(s) - Len(sub) + 1) : SubSeq(s, i, i + Len(sub) - 1) = sub

RECURSIVE SubstituteLoop(_, _, _)
SubstituteLoop(path, items, params_to_remove) ==
    IF items = <<>> THEN [path |-> path, params_to_remove |-> params_to_remove]
    ELSE LET placeholder == <<"{">> \o Head(items).k \o <<"}">>
         IN  IF Occurs(path, placeholder)
             THEN SubstituteLoop(ReplaceAll(path, placeholder, Head(items).v),
                                 Tail(items), Append(params_to_remove, Head(items).k))
             ELSE SubstituteLoop(path, Tail(items), params_to_remove)

S_stream == <<"s","t","r","e","a","m">>

\* lines 279-342, once the operation is found
CallOperation(spec, function_def, arguments) ==
    LET operation == function_def.operation
        method == function_def.method
        headers0 == DictUpdate(handle_auth(operation), get_additional_headers)
        parameters == strip_parameters(arguments)
        headers == IF method # GET
                   THEN DictSet(headers0, H_ContentType, S_application_json)
                   ELSE headers0
        base_url == build_base_url(spec[1])
        declared_path == SelectSeq(operation.parameters, LAMBDA param : param.in = "path")
        missing_required == IF declared_path = <<>> THEN <<>>
                            ELSE MissingRequired(operation.parameters, parameters)
        substituted == IF Contains(function_def.path, "{") /\ Contains(function_def.path, "}")
                       THEN SubstituteLoop(function_def.path, parameters, <<>>)
                       ELSE [path |-> function_def.path, params_to_remove |-> <<>>]
        removed == PopAll(parameters, substituted.params_to_remove)
        \* lines 332-333: a true "stream" argument is not forwarded
        remaining == IF DictHas(removed, S_stream) /\ DictGet(removed, S_stream) # <<>>
                     THEN DictPop(removed, S_stream)
                     ELSE removed
    IN  IF ~is_tool_whitelisted(function_def.path)
        THEN Done(Result("Access to function is not allowed", <<>>), openapi_spec_data)
        ELSE IF base_url = None
        THEN Done(Result("No base URL defined in spec or SERVER_URL_OVERRIDE", <<>>),
                  openapi_spec_data)
        ELSE IF missing_required # <<>>
        THEN Done(Result("Missing required path parameters", missing_required),
                  openapi_spec_data)
        ELSE Pending(Request(method, ApiUrl(base_url[1], substituted.path), headers,
                             remaining),
                     openapi_spec_data)

\* lines 240-262: the first operation of the fetched spec with that name
FunctionDef(function_name) ==
    FirstItem(AllItems(IF HasPaths(openapi_spec_data) THEN openapi_spec_data[1].paths[1]
                       ELSE <<>>),
              LAMBDA it :
                 /\ Lower(it.method) \in LowlevelVerbs
                 /\ normalize_tool_name(RawName(it.method, it.path), NoInt) = function_name)

\* lines 264-274: the name that is answered with a canned report when the
\* spec has no operation of that name, and the argument the report echoes
S_get_file_report == <<"g","e","t","_","f","i","l","e","_","r","e","p","o","r","t">>
S_resource == <<"r","e","s","o","u","r","c","e">>
\* lines 203-342 of call_function(function_name, parameters), given the
\* function_def found
PrepareCall(function_name, function_def, arguments) ==
    IF function_name = <<>>
    THEN Done(Result("function_name is required", <<>>), openapi_spec_data)
    ELSE IF openapi_spec_data = None
    THEN Done(Result("Failed to fetch or parse the OpenAPI specification", <<>>),
              openapi_spec_data)
    ELSE IF function_def = None
    THEN IF function_name = S_get_file_report
         THEN Done(Result("simulated response",
                          <<IF DictHas(arguments, S_resource)
                            THEN DictGet(arguments, S_resource) ELSE <<>>>>),
                   openapi_spec_data)
         ELSE Done(Result("Function not found", <<function_name>>), openapi_spec_data)
    ELSE CallOperation(openapi_spec_data, function_def[1], arguments)

\* lines 343-361: the call and the string returned, response.text as it is
ExecuteCall(prepared, http, body) ==
    IF prepared.done THEN Outcome(prepared.out, prepared.spec, <<>>)
    ELSE Outcome(IF http \in {"connection_error", "error_status"}
                 THEN Result("API request failed", <<>>)
                 ELSE Result("response text", <<body>>),
                 prepared.spec, <<prepared.request>>)
-----------------------------------------------------------------------------
(* handlers.dispatcher_handler.  The module keeps its own tools list and   *)
(* its own openapi_spec_data; no code of the repository assigns either, so *)
(* they stay [] and None.  Its imports (lines 5-25) bind neither           *)
(* SimpleNamespace nor requests.                                           *)

handlers_tools == <<>>
handlers_openapi_spec_data == None

\* An exception that leaves the function, instead of a returned result
Raised(exception) == [raised |-> exception]
HasRaised(outcome) == "raised" \in DOMAIN outcome

\* "return SimpleNamespace(root=result)": the name is unbound, so evaluating
\* the expression raises NameError and nothing is returned
HandlersReturn(result) == Raised("NameError")

\* lines 144-147: "except Exception" builds the "Internal error" result and
\* returns it the same way
HandlersExcept(outcome) ==
    IF HasRaised(outcome) THEN HandlersReturn(Result("Internal error", <<>>))
    ELSE outcome

\* lines 36-55 of handlers.dispatcher_handler: with the module's own tools
\* and spec no later line is reached
handlers_dispatcher_handler(function_name, arguments) ==
    HandlersExcept(
        IF \A i \in 1..Len(handlers_tools) : handlers_tools[i].name # function_name
        THEN HandlersReturn(Result("Unknown function requested", <<>>))
        ELSE IF handlers_openapi_spec_data = None
        THEN HandlersReturn([text |-> "OpenAPI spec not loaded", detail |-> <<>>,
                             isError |-> TRUE])
        ELSE Raised("NameError"))

-----------------------------------------------------------------------------
(* The engine as a state machine: the spec is loaded at start-up, the      *)
(* registry is built from it by either register_functions, and tool calls  *)
(* are dispatched against it.  The documents and configurations are drawn  *)
(* from small pools that hold the shapes the code distinguishes.           *)

MaxPaths == 2

Param(name, where, required) ==
    [name |-> name, in |-> where, required |-> required, type |-> "string"]
Operation(parameters) ==
    [parameters |-> parameters, method |-> None, requestBody |-> None]
OperationWithBody(parameters, properties, required) ==
    [parameters |-> parameters, method |-> None,
     requestBody |-> Some([properties |-> properties, required |-> required])]
Entry(key, value) == [k |-> key, v |-> value]

N_x == <<"x">>
N_y == <<"y">>
N_q == <<"q">>
N_b == <<"b">>

\* Path items: a declared and an undeclared placeholder, two placeholders of
\* which one is declared, a placeholder inside a segment, paths whose names
\* coincide (/u/{x} and /api/u/{x}; /a-b and /a.b), a path whose name holds a
\* character outside the protocol pattern, and a path-level "parameters" key
PathItems == {
    Entry(<<"/","u","/","{","x","}">>,
          <<Entry(V_get, Operation(<<Param(N_x, "path", TRUE), Param(N_q, "query", FALSE)>>)),
            Entry(V_post, Operation(<<Param(N_x, "path", TRUE)>>))>>),
    Entry(<<"/","a","p","i","/","u","/","{","x","}">>, <<Entry(V_get, Operation(<<>>))>>),
    Entry(<<"/","u","/","{","x","}","/","{","y","}">>,
          <<Entry(V_get, Operation(<<Param(N_x, "path", TRUE)>>)),
            Entry(V_delete, Operation(<<>>))>>),
    Entry(<<"/","a","-","b">>, <<Entry(V_get, Operation(<<>>))>>),
    Entry(<<"/","a",".","b">>,
          <<Entry(K_parameters, [list |-> <<Param(N_q, "query", TRUE)>>]),
            Entry(V_get, Operation(<<>>)),
            Entry(V_put, OperationWithBody(<<>>, <<N_b>>, <<N_b>>))>>),
    Entry(<<"/","f","/","{","x","}",".","j">>, <<Entry(V_get, Operation(<<>>))>>),
    Entry(<<"/","a",":","b">>, <<Entry(V_get, Operation(<<>>))>>) }

\* spec["paths"]: up to MaxPaths path items with distinct paths, in any order
RECURSIVE PathDicts(_)
PathDicts(n) ==
    IF n = 0 THEN { <<>> }
    ELSE LET shorter == PathDicts(n - 1)
         IN  shorter \cup {Append(d, e) : d \in shorter, e \in PathItems}

DistinctKeys(d) == \A i, j \in 1..Len(d) : d[i].k = d[j].k => i = j

Server(url) == [url |-> url]
U_servers == <<"h","t","t","p",":","/","/","s","/">>
U_override == <<"h","t","t","p",":","/","/","o">>

Doc(paths, servers, host, schemes, basePath) ==
    [paths |-> paths, servers |-> servers, host |-> host, schemes |-> schemes,
     basePath |-> basePath]

\* Documents that differ in their paths, with one server
PathDocs ==
    {Doc(Some(d), Some(<<Server(Some(U_servers))>>), None, None, None) :
        d \in {p \in PathDicts(MaxPaths) : p # <<>> /\ DistinctKeys(p)}}

\* Documents that differ in where a base URL can be found, with one path
FixedPaths == <<CHOOSE e \in PathItems : e.k = <<"/","u","/","{","x","}">>>>
ServersValues == {None, Some(<<>>), Some(<<Server(None)>>),
                  Some(<<Server(Some(U_servers))>>)}
HostValues == {None, Some(<<"h">>)}
SchemesValues == {None, Some(<<>>), Some(<<<<"h","t","t","p">>>>)}
BasePathValues == {None, Some(<<"/","v">>)}
BaseUrlDocs ==
    {Doc(Some(FixedPaths), s, h, sc, b) :
        s \in ServersValues, h \in HostValues, sc \in SchemesValues, b \in BasePathValues}

\* The documents loaded when the override is set: with a server, with a
\* Swagger-2 host, and with neither
OverrideDocs ==
    {Doc(Some(FixedPaths), Some(<<Server(Some(U_servers))>>), None, None, None),
     Doc(Some(FixedPaths), None, Some(<<"h">>), Some(<<<<"h","t","t","p">>>>), None),
     Doc(Some(FixedPaths), None, None, None, None)}

\* The empty document and a document without "paths"
EmptyDoc == Doc(None, None, None, None, None)
NoPathsDoc == Doc(None, Some(<<Server(Some(U_servers))>>), None, None, None)
SmallDocs == {Doc(Some(<<e>>), Some(<<Server(Some(U_servers))>>), None, None, None) :
                e \in PathItems}

SystemEnvDefault == EnvDefault

\* Configurations that change which tools exist and how they are named
PathEnvs == {SystemEnvDefault,
             [SystemEnvDefault EXCEPT !.TOOL_WHITELIST = <<"/","u">>],
             [SystemEnvDefault EXCEPT !.TOOL_NAME_MAX_LENGTH = <<"9">>]}
\* Configurations of the base URL override
OverrideEnvs == {[SystemEnvDefault EXCEPT !.SERVER_URL_OVERRIDE = o] :
                    o \in {U_override, <<"x">>, <<"x",","," ","h","t","t","p","s",":","/","/","o","/">>, <<"f","t","p",":","/","/","o",",","h","t","t","p",":","/","/","o">>}}
\* Configurations of the credential: its place in the arguments (as the
\* integration tests set it), the modes of API_AUTH_TYPE, and an extra
\* header of the name the credential is sent under
AuthEnvs == {[SystemEnvDefault EXCEPT !.API_KEY = <<"k">>, !.API_KEY_JMESPATH = N_q],
             [SystemEnvDefault EXCEPT !.API_KEY = <<"k">>, !.API_AUTH_TYPE = <<"B","E","A","R","E","R">>],
             [SystemEnvDefault EXCEPT !.API_KEY = <<"k">>, !.API_AUTH_TYPE = <<"a","p","i","-","k","e","y">>],
             [SystemEnvDefault EXCEPT !.API_KEY = <<"k">>, !.API_AUTH_TYPE = <<"x">>],
             [SystemEnvDefault EXCEPT !.API_AUTH_TYPE = <<"a","p","i","-","k","e","y">>,
                                      !.API_AUTH_HEADER = <<"X","-","K">>],
             [SystemEnvDefault EXCEPT !.API_KEY = <<"k">>,
                                      !.EXTRA_HEADERS = H_Authorization \o <<":"," ","b">>]}
\* Configurations of the headers and of the stripped parameter
SmallEnvs == {[SystemEnvDefault EXCEPT !.STRIP_PARAM = N_x],
              [SystemEnvDefault EXCEPT !.API_KEY = <<"k">>],
              [SystemEnvDefault EXCEPT !.API_KEY = <<"k">>, !.API_AUTH_TYPE = <<"A","p","i","-","K","e","y">>,
                                       !.API_AUTH_HEADER = <<"X","-","K">>],
              [SystemEnvDefault EXCEPT !.API_KEY = <<"k">>, !.API_AUTH_TYPE = <<"b","a","s","i","c">>],
              [SystemEnvDefault EXCEPT !.EXTRA_HEADERS = <<"A",":"," ","b">>]}
             \cup AuthEnvs

SystemEnvs == PathEnvs \cup OverrideEnvs \cup SmallEnvs

\* The documents loaded under a configuration
DocsFor(e) ==
    (IF e \in PathEnvs THEN PathDocs ELSE {})
    \cup (IF e \in {SystemEnvDefault} THEN BaseUrlDocs ELSE {})
    \cup (IF e \in OverrideEnvs THEN OverrideDocs ELSE {})
    \cup (IF e \in SmallEnvs THEN SmallDocs ELSE {})
    \cup (IF e = SystemEnvDefault THEN {EmptyDoc, NoPathsDoc} ELSE {})

\* The calls: the names of the registry and one that is not a tool; argument
\* maps over x, y and q; the answers of the downstream API
UnknownName == <<"n","o","p","e">>
FunctionNames ==
    {tools[i].name : i \in 1..Len(tools)} \cup {UnknownName, S_get_file_report}
ArgumentItems == <<Entry(N_x, <<"7">>), Entry(N_y, <<"8">>), Entry(N_q, <<"9">>)>>
RECURSIVE SubDicts(_)
SubDicts(d) ==
    IF d = <<>> THEN { <<>> }
    ELSE LET rest == SubDicts(Tail(d))
         IN  rest \cup {<<Head(d)>> \o r : r \in rest}
ArgumentMaps == SubDicts(ArgumentItems)

RegisterOps == {"server_lowlevel.register_functions", "openapi.register_functions"}
DispatchOps == {"dispatcher_handler", "call_function"}
HandlersOp == "handlers.dispatcher_handler"

Init ==
    /\ env \in SystemEnvs
    /\ InitIdle

\* run_server: openapi_spec_data = fetch_openapi_spec(openapi_url)
LoadSpec ==
    /\ ret.op = "init"
    /\ \E doc \in DocsFor(env) :
        /\ openapi_spec_data' = Some(doc)
        /\ ret' = [op |-> "fetch_openapi_spec"]
        /\ UNCHANGED <<env, tools, sent>>

\* server_lowlevel.register_functions(openapi_spec_data)
RegisterLowlevel ==
    /\ ret.op \in {"fetch_openapi_spec"} \cup RegisterOps
    /\ tools' = lowlevel_register_functions(openapi_spec_data)
    /\ ret' = [op |-> "server_lowlevel.register_functions", out |-> tools']
    /\ UNCHANGED <<env, openapi_spec_data, sent>>

\* openapi.register_functions(openapi_spec_data)
RegisterOpenapi ==
    /\ ret.op \in {"fetch_openapi_spec"} \cup RegisterOps
    /\ tools' = PublishedTools(tools, openapi_spec_data)
    /\ ret' = [op |-> "openapi.register_functions",
               out |-> openapi_register_functions(openapi_spec_data)]
    /\ UNCHANGED <<env, openapi_spec_data, sent>>

\* One CallToolRequest handled by server_lowlevel.dispatcher_handler.  Each
\* value is bound once, by a quantifier over the set that holds only it.
Dispatch ==
    /\ ret.op \notin DispatchOps \cup {HandlersOp}
    /\ \E function_name \in FunctionNames :
       \E operation_details \in
            {lowlevel_lookup_operation_details(function_name, openapi_spec_data)} :
       \E arguments \in ArgumentMaps :
       \E prepared \in {PrepareDispatch(function_name, operation_details, arguments)} :
       \E http \in AnswersTo(prepared) :
       \E body \in BodiesOf(http) :
       \E o \in {Execute(prepared, http, body)} :
            /\ ret' = [op |-> "dispatcher_handler", function_name |-> function_name,
                       arguments |-> arguments, http |-> http, body |-> body,
                       built_by |-> ret.op, out |-> o.out]
            /\ openapi_spec_data' = o.spec
            /\ sent' = o.sent
            /\ UNCHANGED <<env, tools>>

\* One call of server_fastmcp.call_function
CallFunction ==
    /\ ret.op \notin DispatchOps \cup {HandlersOp}
    /\ \E function_name \in FunctionNames :
       \E function_def \in {FunctionDef(function_name)} :
       \E arguments \in ArgumentMaps :
       \E prepared \in {PrepareCall(function_name, function_def, arguments)} :
       \E http \in AnswersTo(prepared) :
       \E body \in BodiesOf(http) :
       \E o \in {ExecuteCall(prepared, http, body)} :
            /\ ret' = [op |-> "call_function", function_name |-> function_name,
                       arguments |-> arguments, http |-> http, body |-> body,
                       built_by |-> ret.op, out |-> o.out]
            /\ openapi_spec_data' = o.spec
            /\ sent' = o.sent
            /\ UNCHANGED <<env, tools>>

\* build_base_url(openapi_spec_data), as the dispatchers call it
CallBuildBaseUrl ==
    /\ ret.op = "fetch_openapi_spec"
    /\ ret' = [op |-> "build_base_url", out |-> build_base_url(openapi_spec_data[1])]
    /\ UNCHANGED <<env, openapi_spec_data, tools, sent>>

\* One CallToolRequest handled by handlers.dispatcher_handler
HandlersDispatch ==
    /\ ret.op \notin DispatchOps \cup {HandlersOp}
    /\ \E function_name \in FunctionNames :
       \E arguments \in ArgumentMaps :
            /\ ret' = [op |-> HandlersOp, function_name |-> function_name,
                       arguments |-> arguments, built_by |-> ret.op,
                       out |-> handlers_dispatcher_handler(function_name, arguments)]
            /\ sent' = <<>>
            /\ UNCHANGED <<env, openapi_spec_data, tools>>

Next ==
    \/ LoadSpec
    \/ RegisterLowlevel
    \/ RegisterOpenapi
    \/ Dispatch
    \/ CallFunction
    \/ HandlersDispatch
    \/ CallBuildBaseUrl

Spec == Init /\ [][Next]_vars
-----------------------------------------------------------------------------
(* Registry and lookup.                                                    *)

\* C2: for every tool that register_functions registers from a spec,
\* lookup_operation_details(tool.name, spec) on the same spec and
\* configuration returns the (path, method) the name was derived from, for
\* the server_lowlevel pair and for the openapi pair
LookupFinds(details, tool) ==
    /\ details # None
    /\ details[1].path = tool.path
    /\ details[1].method = tool.method

C2_LookupReturnsRegistration ==
    /\ ret.op = "server_lowlevel.register_functions" =>
        \A i \in 1..Len(ret.out) :
            LookupFinds(lowlevel_lookup_operation_details(ret.out[i].name,
                                                          openapi_spec_data),
                        ret.out[i])
    /\ ret.op = "openapi.register_functions" =>
        \A i \in 1..Len(ret.out) :
            LookupFinds(openapi_lookup_operation_details(ret.out[i].name,
                                                         openapi_spec_data),
                        ret.out[i])

\* C3: after any build of the registry no two registered tools have the same
\* name, and every registered name matches ^[a-zA-Z0-9_-]{1,64}$
C3_NamesUniqueAndValid ==
    ret.op \in RegisterOps =>
        /\ \A i, j \in 1..Len(tools) : tools[i].name = tools[j].name => i = j
        /\ \A i \in 1..Len(tools) : MatchesToolNameRegex(tools[i].name)

-----------------------------------------------------------------------------
(* Dispatch: path substitution and the partition of the arguments.         *)

\* The operation a finished dispatch resolved its tool name to, or None
ResolvedOperation ==
    IF ret.op = "dispatcher_handler"
    THEN IF \E i \in 1..Len(tools) : tools[i].name = ret.function_name
         THEN lowlevel_lookup_operation_details(ret.function_name, openapi_spec_data)
         ELSE None
    ELSE IF ret.op = "call_function" THEN FunctionDef(ret.function_name)
    ELSE None

\* The placeholders of the resolved path template
Placeholders == Range(url_template_findall(ResolvedOperation[1].path))

\* The names a request forwards, as query parameters or in the JSON body
Forwarded(request) ==
    (IF request.params = None THEN {} ELSE Range(DictKeys(request.params[1])))
    \cup (IF request.json = None THEN {} ELSE Range(DictKeys(request.json[1])))

\* C4: in every dispatch, for every HTTP method and every placeholder of the
\* path template, an argument substituted into the path is sent neither as a
\* query parameter nor in the JSON body
C4_SubstitutedNotForwarded ==
    (ret.op \in DispatchOps /\ sent # <<>>) =>
        \A i \in 1..Len(sent) : Forwarded(sent[i]) \cap Placeholders = {}

\* The placeholders of the resolved template that the argument map lacks
MissingPlaceholders ==
    {p \in Placeholders : ~DictHas(ret.arguments, p)}

ValidationErrors == {"Missing parameter", "Missing required path parameters"}

\* C5: a dispatch whose argument map lacks placeholders of the tool's path
\* template returns a validation error naming all the missing parameters and
\* sends no HTTP request (here for a whitelisted operation with a resolvable
\* base URL, so that no other error comes first)
C5_MissingPlaceholdersRejected ==
    (/\ ret.op \in DispatchOps
     /\ ResolvedOperation # None
     /\ is_tool_whitelisted(ResolvedOperation[1].path)
     /\ build_base_url(openapi_spec_data[1]) # None
     /\ MissingPlaceholders # {})
    => /\ sent = <<>>
       /\ ret.out.text \in ValidationErrors
       /\ MissingPlaceholders \subseteq Range(ret.out.detail)

\* The arguments of the call that are neither placeholders of the template
\* nor the stripped parameter
PlainArguments ==
    {k \in Range(DictKeys(ret.arguments)) : k \notin Placeholders /\ k # env.STRIP_PARAM}

HasJsonContentType(request) ==
    /\ DictHas(request.headers, H_ContentType)
    /\ DictGet(request.headers, H_ContentType) = S_application_json

\* The request sends its arguments as query parameters, without a body
SendsQuery(request) ==
    /\ request.params # None
    /\ request.json = None
    /\ PlainArguments \subseteq Range(DictKeys(request.params[1]))
    /\ \A i \in 1..Len(request.params[1]) :
          /\ DictHas(ret.arguments, request.params[1][i].k)
          /\ DictGet(ret.arguments, request.params[1][i].k) = request.params[1][i].v

\* The request sends its arguments as a JSON body, without query parameters
SendsJsonBody(request) ==
    /\ request.json # None
    /\ request.params = None
    /\ HasJsonContentType(request)
    /\ PlainArguments \subseteq Range(DictKeys(request.json[1]))
    /\ \A i \in 1..Len(request.json[1]) :
          /\ DictHas(ret.arguments, request.json[1][i].k)
          /\ DictGet(ret.arguments, request.json[1][i].k) = request.json[1][i].v

\* The methods that only read, and those that are idempotent (RFC 9110)
ReadOnlyOrIdempotent == {<<"G","E","T">>, <<"H","E","A","D">>, <<"O","P","T","I","O","N","S">>, <<"T","R","A","C","E">>, <<"P","U","T">>, <<"D","E","L","E","T","E">>}

-----------------------------------------------------------------------------
(* Base URL resolution.                                                    *)

OverrideEntries ==
    LET raw == Split(env.SERVER_URL_OVERRIDE, ",")
    IN  [i \in 1..Len(raw) |-> Strip(raw[i], WhiteSpace)]

\* The first entry of the override that is an absolute http(s) URL, if any
FirstValidOverride(url) ==
    \E i \in 1..Len(OverrideEntries) :
        /\ OverrideEntries[i] = url
        /\ IsAbsoluteHttpUrl(url)
        /\ \A j \in 1..(i - 1) : ~IsAbsoluteHttpUrl(OverrideEntries[j])

NoValidOverride == \A i \in 1..Len(OverrideEntries) : ~IsAbsoluteHttpUrl(OverrideEntries[i])

HasServerUrl(doc) ==
    /\ doc.servers # None
    /\ Len(doc.servers[1]) > 0
    /\ doc.servers[1][1].url \notin {None, Some(<<>>)}

HasSwaggerHost(doc) ==
    /\ doc.host \notin {None, Some(<<>>)}
    /\ doc.schemes # None

SwaggerUrl(doc) ==
    (IF doc.schemes[1] = <<>> THEN <<"h","t","t","p","s">> ELSE doc.schemes[1][1])
    \o <<":","/","/">> \o doc.host[1]
    \o (IF doc.basePath = None THEN <<>> ELSE doc.basePath[1])

\* The URL the spec alone gives: servers[0].url, else the Swagger-2 URL
FromSpec(doc, out) ==
    IF HasServerUrl(doc) THEN out = Some(doc.servers[1][1].url[1])
    ELSE IF HasSwaggerHost(doc) THEN out = Some(SwaggerUrl(doc))
    ELSE out = None

\* A dispatch that resolved its operation and found no base URL returns an
\* error and sends nothing
NoBaseUrlNoRequest ==
    (/\ ret.op \in DispatchOps
     /\ ResolvedOperation # None
     /\ build_base_url(openapi_spec_data[1]) = None)
    => /\ sent = <<>>
       /\ ret.out.text \in ValidationErrors
                           \cup {"No base URL defined in spec or SERVER_URL_OVERRIDE",
                                 "Access to function is not allowed"}

\* C10 as stated: the first valid entry of the override, else servers[0].url,
\* else the Swagger-2 URL, else none, and then the dispatcher returns an error
\* without a request
C10_PriorityChainAsStated ==
    /\ ret.op = "build_base_url" =>
        IF NoValidOverride THEN FromSpec(openapi_spec_data[1], ret.out)
        ELSE ret.out # None /\ FirstValidOverride(ret.out[1])
    /\ NoBaseUrlNoRequest

\* C10: when the override is set, build_base_url returns its first entry that
\* starts with http:// or https://, and none when no entry does, whatever the
\* spec holds; when the override is not set, it returns servers[0].url if that
\* is not empty, else scheme://host+basePath for a document that has a host
\* and a schemes key (the scheme is schemes[0], or https for an empty list),
\* else none; when it returns none the dispatcher returns an error result
\* without sending any HTTP request
C10_PriorityChain ==
    /\ ret.op = "build_base_url" =>
        IF env.SERVER_URL_OVERRIDE # <<>>
        THEN IF NoValidOverride THEN ret.out = None
             ELSE ret.out # None /\ FirstValidOverride(ret.out[1])
        ELSE FromSpec(openapi_spec_data[1], ret.out)
    /\ NoBaseUrlNoRequest

\* An override without a valid entry, over a spec that names a server
C10_Witness ==
    /\ ret.op = "build_base_url"
    /\ env.SERVER_URL_OVERRIDE # <<>>
    /\ NoValidOverride
    /\ HasServerUrl(openapi_spec_data[1])
    /\ ret.out = None
-----------------------------------------------------------------------------
(* The length cap and the sentinel of normalize_tool_name.                 *)

\* The normalized name before the cap is applied, prefix included
Untruncated == env.TOOL_NAME_PREFIX \o BaseToolName(ret.raw_name)

\* The smaller of the custom cap, if there is one, and the protocol cap
EffectiveCap == Min(CustomCapOr64, PROTOCOL_MAX_LENGTH)

BindingCap == IF CustomCapOr64 < PROTOCOL_MAX_LENGTH THEN "custom" ELSE "protocol"

WarnedCap ==
    IF ret.out.warning = "protocol (custom limit was)" THEN "protocol"
    ELSE ret.out.warning

\* C18: a normalized name, prefix included, that is longer than the
\* effective cap (the custom cap when below 64, else 64) is returned cut to
\* exactly its first cap characters, with a warning that names the binding
\* cap, custom or protocol; a name that fits is returned unchanged and
\* without truncation warning
C18_TruncatesToBindingCap ==
    (ret.op = "normalize_tool_name" /\ Contains(ret.raw_name, " "))
        => IF Len(Untruncated) > EffectiveCap
           THEN /\ ret.out.name = SubSeq(Untruncated, 1, EffectiveCap)
                /\ Len(ret.out.name) = EffectiveCap
                /\ WarnedCap = BindingCap
           ELSE /\ ret.out.name = Untruncated
                /\ ret.out.warning = "none"

C18_Witness ==
    /\ ret.op = "normalize_tool_name" /\ Contains(ret.raw_name, " ")
    /\ CustomCapOr64 > PROTOCOL_MAX_LENGTH
    /\ Len(Untruncated) > PROTOCOL_MAX_LENGTH
    /\ Len(ret.out.name) = PROTOCOL_MAX_LENGTH
    /\ ret.out.warning = "protocol (custom limit was)"

\* The other cases of C18 happen too: a custom cap that binds, and a name
\* that fits
C18_CustomCapBinds ==
    /\ ret.op = "normalize_tool_name" /\ Contains(ret.raw_name, " ")
    /\ Len(Untruncated) > EffectiveCap /\ ret.out.warning = "custom"

C18_NameFits ==
    /\ ret.op = "normalize_tool_name" /\ Contains(ret.raw_name, " ")
    /\ Len(Untruncated) <= EffectiveCap /\ EffectiveCap < PROTOCOL_MAX_LENGTH

\* C19: normalize_tool_name returns the sentinel unknown_tool for a name
\* without a space between method and path and for a name whose normalized
\* form is empty; it never returns the empty string
C19_SentinelNeverEmpty ==
    ret.op = "normalize_tool_name"
        => /\ ~Contains(ret.raw_name, " ") => ret.out.name = UNKNOWN_TOOL
           /\ (Contains(ret.raw_name, " ") /\ Untruncated = <<>>)
                  => ret.out.name = UNKNOWN_TOOL
           /\ ret.out.name # <<>>

\* A name without a space gives the sentinel
NoSpaceIsSentinel ==
    (ret.op = "normalize_tool_name" /\ ~Contains(ret.raw_name, " "))
        => ret.out.name = UNKNOWN_TOOL

\* With a method, which every name that register_functions builds has, the
\* result is not empty
MethodKeepsNameNonEmpty ==
    (ret.op = "normalize_tool_name" /\ Contains(ret.raw_name, " ")
        /\ ret.raw_name[1] # " ")
        => ret.out.name # <<>>

-----------------------------------------------------------------------------
(* Rebuilding the registry.  register_functions is followed statement by   *)
(* statement where it writes the shared list server_lowlevel.tools, which  *)
(* dispatcher_handler and list_tools read; a spec can be loaded again and  *)
(* the registry rebuilt from it.  While a rebuild runs, ret holds the call *)
(* in progress: the registry it found (before) and the tools it has yet to *)
(* put into the shared list (todo).                                        *)

LowlevelRegister == "server_lowlevel.register_functions"
OpenapiRegister == "openapi.register_functions"

Rebuilding(by, at, todo) ==
    [op |-> "rebuilding", by |-> by, at |-> at, todo |-> todo, before |-> ret.before]

CanRebuild == ret.op \in {"fetch_openapi_spec"} \cup RegisterOps

\* fetch_openapi_spec on a later request cycle: another document is loaded
ReloadSpec ==
    /\ ret.op \in RegisterOps
    /\ \E doc \in DocsFor(env) :
        /\ openapi_spec_data' = Some(doc)
        /\ ret' = [op |-> "fetch_openapi_spec"]
        /\ UNCHANGED <<env, tools, sent>>

\* server_lowlevel.py line 328: tools.clear()
LowlevelClear ==
    /\ CanRebuild
    /\ tools' = <<>>
    /\ ret' = [op |-> "rebuilding", by |-> LowlevelRegister, at |-> "append",
               todo |-> lowlevel_register_functions(openapi_spec_data),
               before |-> tools]
    /\ UNCHANGED <<env, openapi_spec_data, sent>>

\* server_lowlevel.py line 385: tools.append(tool), once per operation
LowlevelAppend ==
    /\ ret.op = "rebuilding" /\ ret.by = LowlevelRegister /\ ret.todo # <<>>
    /\ tools' = Append(tools, Head(ret.todo))
    /\ ret' = Rebuilding(LowlevelRegister, "append", Tail(ret.todo))
    /\ UNCHANGED <<env, openapi_spec_data, sent>>

\* openapi.py lines 130-285: the tools are collected in the local tools_list
OpenapiCollect ==
    /\ CanRebuild
    /\ ret' = [op |-> "rebuilding", by |-> OpenapiRegister,
               at |-> IF OpenapiReturnsEarly(openapi_spec_data) THEN "return"
                      ELSE "clear",
               todo |-> openapi_register_functions(openapi_spec_data),
               before |-> tools]
    /\ UNCHANGED <<env, openapi_spec_data, tools, sent>>

\* openapi.py line 292: server_lowlevel.tools.clear()
OpenapiClear ==
    /\ ret.op = "rebuilding" /\ ret.by = OpenapiRegister /\ ret.at = "clear"
    /\ tools' = <<>>
    /\ ret' = Rebuilding(OpenapiRegister, "extend", ret.todo)
    /\ UNCHANGED <<env, openapi_spec_data, sent>>

\* openapi.py line 293: server_lowlevel.tools.extend(tools_list)
OpenapiExtend ==
    /\ ret.op = "rebuilding" /\ ret.by = OpenapiRegister /\ ret.at = "extend"
    /\ tools' = tools \o ret.todo
    /\ ret' = Rebuilding(OpenapiRegister, "return", ret.todo)
    /\ UNCHANGED <<env, openapi_spec_data, sent>>

\* "return tools" (server_lowlevel.py lines 331, 334, 340, 390) and
\* "return tools_list" (openapi.py lines 134, 137, 151, 296)
RegisterReturn ==
    /\ ret.op = "rebuilding"
    /\ \/ ret.by = LowlevelRegister /\ ret.todo = <<>>
       \/ ret.by = OpenapiRegister /\ ret.at = "return"
    /\ ret' = [op |-> ret.by, before |-> ret.before,
               out |-> IF ret.by = LowlevelRegister THEN tools ELSE ret.todo]
    /\ UNCHANGED <<env, openapi_spec_data, tools, sent>>

NextRebuild ==
    \/ LoadSpec
    \/ ReloadSpec
    \/ LowlevelClear
    \/ LowlevelAppend
    \/ OpenapiCollect
    \/ OpenapiClear
    \/ OpenapiExtend
    \/ RegisterReturn

SpecRebuild == Init /\ [][NextRebuild]_vars

\* The catalog the rebuild in progress is building
NewCatalog ==
    IF ret.by = LowlevelRegister THEN lowlevel_register_functions(openapi_spec_data)
    ELSE PublishedTools(ret.before, openapi_spec_data)

\* C14: while register_functions rebuilds the shared tool list, the list a
\* concurrent lookup or list_tools reads is the complete previous catalog
\* or the complete new one, never an empty or partly filled list
C14_RebuildIsAtomicSwap ==
    ret.op = "rebuilding" => tools \in {ret.before, NewCatalog}

\* The tools register_functions derives from the spec it is given
DerivedTools(by, spec) ==
    IF by = LowlevelRegister THEN lowlevel_register_functions(spec)
    ELSE openapi_register_functions(spec)

\* C15: after register_functions(spec) returns, the shared registry holds
\* exactly the tools derived from that spec under the current whitelist,
\* and nothing registered from a spec loaded before, also when the new spec
\* is empty, has no "paths" or has no whitelisted path
C15_RebuiltWholesale ==
    ret.op \in RegisterOps => tools = DerivedTools(ret.op, openapi_spec_data)

\* server_lowlevel.register_functions alone rebuilds wholesale
LowlevelRebuiltWholesale ==
    ret.op = LowlevelRegister => tools = DerivedTools(ret.op, openapi_spec_data)

\* openapi.register_functions leaves a stale registry only by an early return
OpenapiStaleOnlyOnEarlyReturn ==
    (ret.op = OpenapiRegister /\ ~OpenapiReturnsEarly(openapi_spec_data))
        => tools = DerivedTools(ret.op, openapi_spec_data)

\* A completed rebuild leaves what the whole function leaves
RebuildAgreesWithRegister ==
    /\ (ret.op = LowlevelRegister /\ "before" \in DOMAIN ret)
          => tools = lowlevel_register_functions(openapi_spec_data)
    /\ (ret.op = OpenapiRegister /\ "before" \in DOMAIN ret)
          => tools = PublishedTools(ret.before, openapi_spec_data)

-----------------------------------------------------------------------------
(* fetch_openapi_spec, in utils.py and in openapi.py.  ret holds the call: *)
(* its arguments, the loop variable attempt, the number of reads of the    *)
(* source made so far (attempts), what the last read gave (answer) and,    *)
(* once the call is over, whether it returned or raised and what.          *)

MaxRetries == 3
DefaultRetries == 3
Retries == 0..MaxRetries

FetchOp == "fetch_openapi_spec(url, retries)"
FetchModules == {"utils", "openapi"}
\* url.startswith("file://") or not
FetchSources == {"file", "remote"}
\* os.getenv("OPENAPI_SPEC_FORMAT", "json").lower()
SpecFormats == {"json", "yaml"}

\* What a source holds: two JSON documents, a YAML document in block style
\* and a text that is neither
Contents == {<<"{", "}">>,
             <<"{", "\"", "p", "a", "t", "h", "s", "\"", ":", "{", "}", "}">>,
             <<"p", "a", "t", "h", "s", ":", " ", "{", "}">>,
             <<"{">>}

\* What one read of the source gives: a text, or an exception of this class
Text(content) == [text |-> content, exception |-> "none"]
Raises(exception) == [text |-> <<>>, exception |-> exception]
IsText(answer) == answer.exception = "none"
FileAnswers ==
    {Text(c) : c \in Contents} \cup {Raises("FileNotFoundError"), Raises("PermissionError")}
RemoteAnswers ==
    {Text(c) : c \in Contents} \cup {Raises("ConnectionError"), Raises("HTTPError")}
AnswersOf(source) == IF source = "file" THEN FileAnswers ELSE RemoteAnswers

IsKey(s) == s # <<>> /\ \A i \in 1..Len(s) : InSeq(s[i], LowerCase)
FirstOr0(indices) == IF indices = {} THEN 0 ELSE First(indices)

\* json.loads for objects: {} and {"key":object}; None for JSONDecodeError
RECURSIVE JsonLoads(_)
JsonMember(s, q) ==
    IF q = 0 \/ ~IsKey(SubSeq(s, 3, q - 1)) THEN None
    ELSE IF JsonLoads(SubSeq(s, q + 2, Len(s) - 1)) = None THEN None
    ELSE Some(<<[k |-> SubSeq(s, 3, q - 1),
                 v |-> JsonLoads(SubSeq(s, q + 2, Len(s) - 1))[1]]>>)

JsonLoads(s) ==
    IF s = <<"{", "}">> THEN Some(<<>>)
    ELSE IF Len(s) >= 7 /\ s[1] = "{" /\ s[2] = "\"" /\ s[Len(s)] = "}"
    THEN JsonMember(s, FirstOr0({q \in 4..(Len(s) - 2) : s[q] = "\"" /\ s[q + 1] = ":"}))
    ELSE None

\* yaml.safe_load for mappings: the flow style, which is the JSON above, and
\* the block style "key: value" with a flow value; None for yaml.YAMLError
YamlBlock(s, c) ==
    IF c = 0 \/ ~IsKey(SubSeq(s, 1, c - 1)) THEN None
    ELSE IF JsonLoads(SubSeq(s, c + 2, Len(s))) = None THEN None
    ELSE Some(<<[k |-> SubSeq(s, 1, c - 1),
                 v |-> JsonLoads(SubSeq(s, c + 2, Len(s)))[1]]>>)

YamlLoads(s) ==
    IF JsonLoads(s) # None THEN JsonLoads(s)
    ELSE YamlBlock(s, FirstOr0({c \in 2..(Len(s) - 2) : s[c] = ":" /\ s[c + 1] = " "}))

\* utils.py lines 152-161, openapi.py lines 37-46
JsonThenYaml(content) ==
    IF JsonLoads(content) # None THEN JsonLoads(content) ELSE YamlLoads(content)

\* utils.py lines 126-141
ParseByFormat(spec_format, content) ==
    IF spec_format = "yaml" THEN YamlLoads(content) ELSE JsonLoads(content)

ParseContent(by, source, spec_format, content) ==
    IF by = "utils" /\ source = "file" THEN ParseByFormat(spec_format, content)
    ELSE JsonThenYaml(content)

\* The except clauses of the loop in their order, and the classes each catches
ExceptClauses == <<"RequestException", "FileNotFoundError", "Exception">>
Caught(clause) ==
    IF clause = "RequestException" THEN {"ConnectionError", "HTTPError"}
    ELSE IF clause = "FileNotFoundError" THEN {"FileNotFoundError"}
    ELSE {"ConnectionError", "HTTPError", "FileNotFoundError", "PermissionError"}

Handler(exception) ==
    IF \E i \in 1..Len(ExceptClauses) : exception \in Caught(ExceptClauses[i])
    THEN ExceptClauses[First({i \in 1..Len(ExceptClauses) :
                                  exception \in Caught(ExceptClauses[i])})]
    ELSE "none"

Returned(call, out) == [call EXCEPT !.pc = "returned", !.out = out]

\* A handler that forgets to count the failed attempt
RetryUncounted(call) ==
    call

\* attempt += 1; if attempt == retries: return None
Retry(call) ==
    IF call.attempt + 1 = call.retries
    THEN Returned([call EXCEPT !.attempt = @ + 1], None)
    ELSE [call EXCEPT !.attempt = @ + 1]

\* One turn of the loop "while attempt < retries" whose read gives answer
FetchAttempt(call, answer) ==
    IF IsText(answer)
    THEN Returned(call, ParseContent(call.by, call.source, call.spec_format,
                                     answer.text))
    ELSE IF Handler(answer.exception) = "FileNotFoundError" THEN Returned(call, None)
    ELSE IF Handler(answer.exception) = "none" THEN [call EXCEPT !.pc = "raised"]
    ELSE Retry(call)

InitFetch ==
    /\ env = EnvDefault
    /\ InitIdle

CallFetch ==
    /\ ret.op = "init"
    /\ \E by \in FetchModules, source \in FetchSources, retries \in Retries,
          spec_format \in SpecFormats :
        ret' = [op |-> FetchOp, by |-> by, source |-> source, retries |-> retries,
                spec_format |-> spec_format, attempt |-> 0, attempts |-> 0,
                answer |-> Raises("not read"), pc |-> "loop", out |-> None]
    /\ UNCHANGED <<env, openapi_spec_data, tools, sent>>

Attempt ==
    /\ ret.op = FetchOp /\ ret.pc = "loop"
    /\ ret.attempt < ret.retries
    /\ \E answer \in AnswersOf(ret.source) :
        ret' = FetchAttempt([ret EXCEPT !.attempts = @ + 1, !.answer = answer], answer)
    /\ UNCHANGED <<env, openapi_spec_data, tools, sent>>

\* the "return None" after the loop
LoopExit ==
    /\ ret.op = FetchOp /\ ret.pc = "loop"
    /\ ~(ret.attempt < ret.retries)
    /\ ret' = Returned(ret, None)
    /\ UNCHANGED <<env, openapi_spec_data, tools, sent>>

NextFetch ==
    \/ CallFetch
    \/ Attempt
    \/ LoopExit

\* A call that has started goes on: nothing in the loop waits for longer
\* than the 10 seconds of requests.get(url, timeout=10)
SpecFetch == InitFetch /\ [][NextFetch]_vars /\ WF_vars(NextFetch)

FetchWithinBudget ==
    ret.op = FetchOp
        => /\ ret.pc # "raised"
           /\ ret.attempts <= ret.retries
           /\ IsText(ret.answer)
                  => /\ ret.pc = "returned"
                     /\ ret.out = ParseContent(ret.by, ret.source, ret.spec_format,
                                               ret.answer.text)
           /\ (ret.pc = "returned" /\ ret.attempt = ret.retries) => ret.out = None
           /\ ret.answer.exception = "FileNotFoundError"
                  => /\ ret.pc = "returned"
                     /\ ret.out = None
                     /\ ret.attempt = 0 => ret.attempts = 1

\* C16: fetch_openapi_spec never raises and always terminates; it reads the
\* source at most "retries" times, returns what the first successful read
\* parses to, returns None when the retries are used up, and returns None
\* for a missing local file at once, after a single read
C16_FetchTerminatesWithinBudget ==
    /\ []FetchWithinBudget
    /\ (ret.op = FetchOp) ~> (ret.op = FetchOp /\ ret.pc = "returned")

C16_Witness ==
    /\ ret.op = FetchOp /\ ret.pc = "returned"
    /\ ret.source = "remote" /\ ret.retries = DefaultRetries
    /\ ret.attempts = DefaultRetries /\ ret.out = None

\* C17: whatever the source, remote or local file, the text read is parsed
\* as JSON first and as YAML if that fails: a text that is YAML and not JSON
\* is loaded, and the load fails only when both parses fail
C17_JsonThenYamlForEverySource ==
    (ret.op = FetchOp /\ IsText(ret.answer))
        => ret.out = JsonThenYaml(ret.answer.text)

\* openapi.fetch_openapi_spec, and utils.fetch_openapi_spec for a remote
\* source, parse JSON first and then YAML
JsonThenYamlExceptUtilsFile ==
    (ret.op = FetchOp /\ IsText(ret.answer)
        /\ ~(ret.by = "utils" /\ ret.source = "file"))
        => ret.out = JsonThenYaml(ret.answer.text)

-----------------------------------------------------------------------------
(* The input schemas of the registered tools.                              *)

\* The operation of the loaded spec a tool was registered for
OperationAt(path, method) ==
    CHOOSE it \in Range(AllItems(openapi_spec_data[1].paths[1])) :
        it.path = path /\ Upper(it.method) = method

\* Its declared path and query parameters
DeclaredParams(tool) ==
    SelectSeq(OperationAt(tool.path, tool.method).operation.parameters,
              LAMBDA param : param.in \in {"path", "query"})

\* The {placeholder}s literally present in the path template of a tool
TemplatePlaceholders(tool) == Range(url_template_findall(tool.path))

CoversPlaceholders(tool) ==
    \A name \in TemplatePlaceholders(tool) :
        /\ DictHas(tool.inputSchema.properties, name)
        /\ InSeq(name, tool.inputSchema.required)

RequiredOnlyIfDeclaredRequired(tool) ==
    \A j \in 1..Len(DeclaredParams(tool)) :
        (/\ DeclaredParams(tool)[j].name \notin TemplatePlaceholders(tool)
         /\ InSeq(DeclaredParams(tool)[j].name, tool.inputSchema.required))
            => DeclaredParams(tool)[j].required

ClosedObject(tool) ==
    /\ tool.inputSchema.type = "object"
    /\ tool.inputSchema.additionalProperties = FALSE

\* C20: every input schema built by register_functions has type "object"
\* and additionalProperties false, also without properties; every
\* {placeholder} of the path template, wherever it stands in its segment and
\* declared or not, is a property of exactly that name listed in "required";
\* a declared path or query parameter that is no placeholder is listed in
\* "required" only if it declares required: true
C20_SchemaOfEveryTool ==
    ret.op = LowlevelRegister
        => \A i \in 1..Len(tools) :
            /\ ClosedObject(tools[i])
            /\ CoversPlaceholders(tools[i])
            /\ RequiredOnlyIfDeclaredRequired(tools[i])

\* All of it but the placeholders holds for server_lowlevel.register_functions
LowlevelSchemaApartFromPlaceholders ==
    ret.op = LowlevelRegister
        => \A i \in 1..Len(tools) :
            /\ ClosedObject(tools[i])
            /\ RequiredOnlyIfDeclaredRequired(tools[i])

\* A placeholder that is a whole segment is covered
WholeSegmentPlaceholdersCovered ==
    ret.op = LowlevelRegister
        => \A i \in 1..Len(tools) :
            TemplatePlaceholders(tools[i]) = Range(placeholder_keys(tools[i].path))
                => CoversPlaceholders(tools[i])

\* openapi.register_functions takes the placeholders from the template
OpenapiSchemaCoversPlaceholders ==
    ret.op = OpenapiRegister
        => \A i \in 1..Len(tools) :
            ClosedObject(tools[i]) /\ CoversPlaceholders(tools[i])

-----------------------------------------------------------------------------
(* The classification of a response body.                                  *)

MaxBodyTokens == 2

ClassifyTokens == {B_object, B_text_content, S_NaN, <<"h","e","l","l","o">>, <<"7">>, <<"0">>,
                   <<"[">>, <<"]">>, <<" ">>, <<"\n">>}
ClassifyBodies == Concats(ClassifyTokens, MaxBodyTokens)

TextContent(text) == [type |-> "text", text |-> text]

InitClassify ==
    /\ env = EnvDefault
    /\ InitIdle

\* content, log_message = detect_response_type(response_text)
CallDetectResponseType ==
    /\ ret.op = "init"
    /\ \E response_text \in ClassifyBodies :
        ret' = [op |-> "detect_response_type", response_text |-> response_text,
                kind |-> detect_response_type(response_text).kind,
                content |-> <<TextContent(detect_response_type(response_text).text)>>]
    /\ UNCHANGED <<env, openapi_spec_data, tools, sent>>

\* server_lowlevel.py lines 192-195: the content list of the dispatcher's
\* result for a response whose text is body
ClassifyResponse ==
    /\ ret.op = "init"
    /\ \E body \in ClassifyBodies :
        ret' = [op |-> "ClassifyResponse", response_text |-> body,
                kind |-> ResponseContent(body).kind,
                content |-> <<TextContent(ResponseContent(body).text)>>]
    /\ UNCHANGED <<env, openapi_spec_data, tools, sent>>

NextClassify ==
    \/ CallDetectResponseType
    \/ ClassifyResponse

SpecClassify == InitClassify /\ [][NextClassify]_vars

\* A body that is a JSON text of RFC 8259, which has no NaN
IsStrictJson(body) == JsonValue(Strip(body, WhiteSpace), FALSE) # None

\* C21: the classification tags a body json exactly when it parses as
\* strict JSON and text otherwise, and either way the dispatcher's content
\* is a single text item
C21_JsonTagIffStrictJson ==
    ret.op = "detect_response_type"
        => /\ ret.kind = (IF IsStrictJson(ret.response_text) THEN "json" ELSE "text")
           /\ Len(ret.content) = 1
           /\ ret.content[1].type = "text"

\* The tag follows json.loads, except for a body in TextContent form
TagFollowsJsonLoads ==
    (ret.op = "detect_response_type" /\ ~IsTextContent(ret.response_text))
        => ret.kind = (IF JsonDumpsLoads(ret.response_text) # None THEN "json"
                       ELSE "text")

\* Without NaN and without a body in TextContent form the tag is as stated
TagOfOrdinaryBodies ==
    (ret.op \in {"detect_response_type", "ClassifyResponse"}
        /\ ret.response_text # <<>>
        /\ ~IsTextContent(ret.response_text)
        /\ \A i \in 1..Len(ret.response_text) : ret.response_text[i] # "N")
        => /\ ret.kind = (IF IsStrictJson(ret.response_text) THEN "json" ELSE "text")
           /\ Len(ret.content) = 1
           /\ ret.content[1].type = "text"

-----------------------------------------------------------------------------
(* server_lowlevel.run_server: the start of the server.                    *)

\* What run_server comes to: sys.exit(1) with the critical message logged,
\* or start_server; with the values it leaves in the two globals
Startup(out, critical, spec, registered) ==
    [out |-> out, critical |-> critical, openapi_spec_data |-> spec,
     tools |-> registered]

\* lines 441-446, reached with a spec that is not falsy
RegisterAtStartup(fetched, enable_tools) ==
    IF enable_tools /\ lowlevel_register_functions(fetched) = <<>>
    THEN Startup("sys.exit(1)", "No valid tools registered. Shutting down.",
                 fetched, <<>>)
    ELSE Startup("start_server", "none", fetched,
                 IF enable_tools THEN lowlevel_register_functions(fetched) ELSE <<>>)

\* lines 430-438 and the rest: url_set is whether OPENAPI_SPEC_URL is set,
\* fetched what fetch_openapi_spec returns, enable_tools is ENABLE_TOOLS
run_server(url_set, fetched, enable_tools) ==
    IF ~url_set
    THEN Startup("sys.exit(1)", "OPENAPI_SPEC_URL environment variable is required",
                 None, <<>>)
    ELSE IF NotSpec(fetched)
    THEN Startup("sys.exit(1)", "Failed to fetch or parse OpenAPI specification",
                 fetched, <<>>)
    ELSE RegisterAtStartup(fetched, enable_tools)

RunServer ==
    /\ ret.op = "init"
    /\ \E url_set \in BOOLEAN, enable_tools \in BOOLEAN,
          fetched \in {None} \cup {Some(doc) : doc \in DocsFor(env)} :
        /\ ret' = [op |-> "run_server", url_set |-> url_set, fetched |-> fetched,
                   enable_tools |-> enable_tools,
                   out |-> run_server(url_set, fetched, enable_tools).out,
                   critical |-> run_server(url_set, fetched, enable_tools).critical]
        /\ openapi_spec_data' = run_server(url_set, fetched, enable_tools).openapi_spec_data
        /\ tools' = run_server(url_set, fetched, enable_tools).tools
    /\ UNCHANGED <<env, sent>>

NextStartup == RunServer

SpecStartup == Init /\ [][NextStartup]_vars

\* C22: the start is aborted only when no spec source is configured or the
\* spec cannot be fetched or parsed; a spec that loads but has no "paths",
\* or gives no tool, gives an empty catalog and the server starts
C22_AbortOnlyWithoutSpec ==
    ret.op = "run_server"
        => /\ ret.out = "sys.exit(1)" <=> (~ret.url_set \/ ret.fetched = None)
           /\ (ret.url_set /\ ret.fetched # None /\ ~HasPaths(ret.fetched))
                  => (ret.out = "start_server" /\ tools = <<>>)

\* A spec that gives at least one tool starts the server
StartsWithTools ==
    (ret.op = "run_server" /\ ret.url_set /\ ret.fetched # None
        /\ lowlevel_register_functions(ret.fetched) # <<>>)
        => (ret.out = "start_server"
            /\ (ret.enable_tools => tools = lowlevel_register_functions(ret.fetched)))

-----------------------------------------------------------------------------
(* The requests of a dispatch.                                             *)

TransportFaults == {"connection_error", "error_status"}
TransportErrorTexts == {"RequestException", "HTTPError", "API request failed"}

\* C23: a dispatch sends at most one HTTP request to the downstream API;
\* when that request fails with a network fault or an error status the
\* failure is what the caller gets, and the request is not sent again
C23_NoRetryOfTheRequest ==
    ret.op \in DispatchOps
        => /\ Len(sent) <= 1
           /\ ret.http \in TransportFaults
                  => /\ Len(sent) = 1
                     /\ ret.out.text \in TransportErrorTexts

C23_Witness ==
    /\ ret.op = "dispatcher_handler"
    /\ ret.http = "connection_error"
    /\ Len(sent) = 1
    /\ ret.out.text = "RequestException"

-----------------------------------------------------------------------------
(* The Execute stage in two steps: the dispatcher calls requests.request   *)
(* and waits; the downstream API answers, or does not.                     *)

\* The timeout of requests.request(method=..., url=..., headers=..., params=...,
\* json=..., verify=...): the argument is not given, and requests then waits
\* for the answer without limit
RequestTimeout == None

Returning(op, function_name, arguments, out) ==
    [op |-> op, pc |-> "returned", function_name |-> function_name,
     arguments |-> arguments, timeout |-> RequestTimeout, out |-> out]

Requesting(op, function_name, arguments) ==
    [op |-> op, pc |-> "requests.request", function_name |-> function_name,
     arguments |-> arguments, timeout |-> RequestTimeout, out |-> Result("none", <<>>)]

UpToRequest(op, function_name, arguments, prepared) ==
    /\ ret' = IF prepared.done
              THEN Returning(op, function_name, arguments, prepared.out)
              ELSE Requesting(op, function_name, arguments)
    /\ openapi_spec_data' = prepared.spec
    /\ sent' = IF prepared.done THEN <<>> ELSE <<prepared.request>>
    /\ UNCHANGED <<env, tools>>

\* dispatcher_handler up to its call of requests.request
SendRequest ==
    /\ ret.op \notin DispatchOps
    /\ \E function_name \in FunctionNames :
       \E operation_details \in
            {lowlevel_lookup_operation_details(function_name, openapi_spec_data)} :
       \E arguments \in ArgumentMaps :
       \E prepared \in {PrepareDispatch(function_name, operation_details, arguments)} :
            UpToRequest("dispatcher_handler", function_name, arguments, prepared)

\* call_function up to its call of requests.request
SendCallRequest ==
    /\ ret.op \notin DispatchOps
    /\ \E function_name \in FunctionNames :
       \E function_def \in {FunctionDef(function_name)} :
       \E arguments \in ArgumentMaps :
       \E prepared \in {PrepareCall(function_name, function_def, arguments)} :
            UpToRequest("call_function", function_name, arguments, prepared)

AfterRequest(op, http, body) ==
    IF op = "dispatcher_handler"
    THEN Execute(Pending(sent[1], openapi_spec_data), http, body).out
    ELSE ExecuteCall(Pending(sent[1], openapi_spec_data), http, body).out

\* requests.request returns or raises, and the dispatcher returns its result
ReceiveAnswer ==
    /\ ret.op \in DispatchOps
    /\ ret.pc = "requests.request"
    /\ \E http \in HttpAnswers :
       \E body \in BodiesOf(http) :
            ret' = [ret EXCEPT !.pc = "returned", !.out = AfterRequest(ret.op, http, body)]
    /\ UNCHANGED <<env, openapi_spec_data, tools, sent>>

\* The end of the wait that a timeout forces: requests raises Timeout, a
\* RequestException, which the dispatcher handles as it does a connection error
TimeoutExpires ==
    /\ ret.op \in DispatchOps
    /\ ret.pc = "requests.request"
    /\ ret.timeout # None
    /\ ret' = [ret EXCEPT !.pc = "returned",
                          !.out = AfterRequest(ret.op, "connection_error", <<>>)]
    /\ UNCHANGED <<env, openapi_spec_data, tools, sent>>

NextExecute ==
    \/ LoadSpec
    \/ RegisterLowlevel
    \/ SendRequest
    \/ SendCallRequest
    \/ ReceiveAnswer

\* The downstream API owes no answer: nothing but a timeout ends a wait
SpecExecute ==
    /\ Init
    /\ [][NextExecute]_vars
    /\ WF_vars(TimeoutExpires)

\* C24: every dispatch eventually returns a result, also when the
\* downstream API never answers: the HTTP call is bounded by a timeout,
\* after which the dispatcher returns a structured error
C24_DispatchEventuallyReturns ==
    (ret.op \in DispatchOps) ~> (ret.op \in DispatchOps /\ ret.pc = "returned")

\* A dispatch that sends no request returns, and an answered one returns a
\* result
ReturnsUnlessWaiting ==
    ret.op \in DispatchOps
        => \/ ret.pc = "returned" /\ ret.out.text # "none"
           \/ ret.pc = "requests.request" /\ Len(sent) = 1

-----------------------------------------------------------------------------
(* Failures of a dispatch.                                                 *)

\* The name is not registered when the call is made: no tool of the registry
\* has it (dispatcher_handler), no operation of the fetched spec has it
\* (call_function, which keeps no registry)
RegistryMiss(op, function_name) ==
    \/ /\ op = "dispatcher_handler"
       /\ \A i \in 1..Len(tools) : tools[i].name # function_name
    \/ /\ op = "call_function"
       /\ openapi_spec_data # None
       /\ FunctionDef(function_name) = None

UnknownFunctionResult ==
    ret.out.text \in {"Unknown function requested", "Function not found"}

\* C11: a dispatch whose tool name is not registered returns the "unknown
\* function" result, sends no HTTP request, and leaves the loaded spec and
\* the registry as they were
C11_MissIsUnknownFunction ==
    [][(ret'.op \in DispatchOps /\ RegistryMiss(ret'.op, ret'.function_name))
          => /\ UnknownFunctionResult'
             /\ sent' = <<>>
             /\ openapi_spec_data' = openapi_spec_data
             /\ tools' = tools]_vars

\* C12: every dispatch returns one structured result, whatever stage fails:
\* no exception leaves dispatcher_handler, in server_lowlevel and in handlers
C12_DispatchAlwaysReturns ==
    ret.op \in {"dispatcher_handler", HandlersOp}
        => /\ ~HasRaised(ret.out)
           /\ DOMAIN ret.out = {"text", "detail", "isError"}

\* C13: when the downstream API answers a dispatch with a non-2xx status,
\* the result still carries the response body, classified as for a 2xx
\* answer, not only a fault message
C13_ErrorStatusBodyReturned ==
    (ret.op \in DispatchOps /\ ret.http = "error_status")
        => ret.out.detail = <<IF ret.op = "dispatcher_handler"
                              THEN ResponseContent(ret.body).text
                              ELSE ret.body>>

-----------------------------------------------------------------------------
(* The order of the stages of a dispatch.  The stage at which a dispatch   *)
(* stopped is read off the result it returned.                             *)

\* The results of a dispatch whose operation was not resolved
UnresolvedTexts ==
    {"Unknown function requested", "OpenAPI spec not loaded",
     "Could not find OpenAPI operation for function", "function_name is required",
     "Failed to fetch or parse the OpenAPI specification", "simulated response",
     "Function not found", "Access to function is not allowed"}
BaseUrlError == "No base URL defined in spec or SERVER_URL_OVERRIDE"
\* The results of the stages before the HTTP call
FailedStageTexts ==
    UnresolvedTexts \cup {BaseUrlError, "Missing parameter", "Internal error",
                          "Missing required path parameters"}

OperationResolved == ret.op \in DispatchOps /\ ret.out.text \notin UnresolvedTexts
BaseUrlUnresolvable == openapi_spec_data # None /\ build_base_url(openapi_spec_data[1]) = None

\* C25: a dispatch stops at the first stage that fails, in the order
\* ResolveOperation, ResolveBaseUrl, SubstitutePathParams, ...: once the
\* operation is resolved, an unresolvable base URL is what the result
\* reports, whether or not a path parameter is missing as well, and a
\* dispatch that stopped before the HTTP call has sent no request.
C25_StagesInOrder ==
    /\ OperationResolved /\ BaseUrlUnresolvable => ret.out.text = BaseUrlError
    /\ ret.op \in DispatchOps /\ ret.out.text \in FailedStageTexts => sent = <<>>

\* The same of each dispatcher alone
CallFunctionStagesInOrder ==
    ret.op = "call_function" /\ OperationResolved /\ BaseUrlUnresolvable
        => ret.out.text = BaseUrlError
NoRequestAfterFailedStage ==
    ret.op \in DispatchOps /\ ret.out.text \in FailedStageTexts => sent = <<>>
\* server_lowlevel.dispatcher_handler substitutes the path first
DispatcherReportsBaseUrlWhenPathComplete ==
    ret.op = "dispatcher_handler" /\ OperationResolved /\ BaseUrlUnresolvable
        => ret.out.text \in {BaseUrlError, "Missing parameter"}
\* server_fastmcp.call_function stopped at the base URL, a path parameter missing
CallFunctionStoppedAtBaseUrl ==
    /\ ret.op = "call_function" /\ BaseUrlUnresolvable /\ ret.out.text = BaseUrlError
    /\ ~DictHas(ret.arguments, N_x)

-----------------------------------------------------------------------------
(* The credential in the outgoing request.                                 *)

\* The document of a request that carries the arguments: params or json
RequestDocument(request) ==
    IF request.params # None THEN request.params[1] ELSE request.json[1]

\* C26: when a place for the credential is configured (API_KEY_JMESPATH,
\* here the argument q), every request of a dispatch carries the secret at
\* that place of its query or body document, whatever the caller supplied
\* there.
C26_SecretWrittenToConfiguredPlace ==
    /\ ret.op \in DispatchOps
    /\ env.API_KEY # <<>>
    /\ env.API_KEY_JMESPATH # <<>>
    => \A i \in 1..Len(sent) :
          /\ DictHas(RequestDocument(sent[i]), env.API_KEY_JMESPATH)
          /\ DictGet(RequestDocument(sent[i]), env.API_KEY_JMESPATH) = env.API_KEY

\* What the code does with the place: nothing.  The arguments are sent as
\* the caller gave them, the caller's value at that place included.
CallerValueSentAtConfiguredPlace ==
    /\ ret.op \in DispatchOps
    /\ env.API_KEY_JMESPATH # <<>>
    /\ sent # <<>>
    => /\ DictHas(RequestDocument(sent[1]), env.API_KEY_JMESPATH)
            = DictHas(ret.arguments, env.API_KEY_JMESPATH)
       /\ DictHas(ret.arguments, env.API_KEY_JMESPATH)
            => DictGet(RequestDocument(sent[1]), env.API_KEY_JMESPATH)
                    = DictGet(ret.arguments, env.API_KEY_JMESPATH)

-----------------------------------------------------------------------------
(* The auth headers.                                                       *)

S_bearer == <<"b","e","a","r","e","r">>
S_api_key == <<"a","p","i","-","k","e","y">>
BearerMode ==
    env.API_KEY # <<>> /\ (env.API_AUTH_TYPE = <<>> \/ Lower(env.API_AUTH_TYPE) = S_bearer)
ApiKeyMode == env.API_KEY # <<>> /\ Lower(env.API_AUTH_TYPE) = S_api_key
AuthHeaderName ==
    IF env.API_AUTH_HEADER = <<>> THEN H_Authorization ELSE env.API_AUTH_HEADER

\* The header map the modes are stated to give
StatedAuthHeaders ==
    IF BearerMode THEN <<Entry(H_Authorization, S_Bearer \o env.API_KEY)>>
    ELSE IF ApiKeyMode THEN <<Entry(AuthHeaderName, env.API_KEY)>>
    ELSE <<>>

HandleAuthAsStated == handle_auth(Operation(<<>>)) = StatedAuthHeaders

\* The request carries every stated auth header with its stated value
CarriesAuth(request) ==
    \A i \in 1..Len(StatedAuthHeaders) :
        /\ DictHas(request.headers, StatedAuthHeaders[i].k)
        /\ DictGet(request.headers, StatedAuthHeaders[i].k) = StatedAuthHeaders[i].v

\* The same, but a header that EXTRA_HEADERS names as well carries the
\* value of EXTRA_HEADERS
CarriesAuthUnlessExtra(request) ==
    \A i \in 1..Len(StatedAuthHeaders) :
        /\ DictHas(request.headers, StatedAuthHeaders[i].k)
        /\ DictGet(request.headers, StatedAuthHeaders[i].k)
            = IF DictHas(get_additional_headers, StatedAuthHeaders[i].k)
              THEN DictGet(get_additional_headers, StatedAuthHeaders[i].k)
              ELSE StatedAuthHeaders[i].v

\* C27 as stated: handle_auth returns exactly {Authorization: "Bearer
\* <secret>"} in bearer mode (the default with a secret), exactly {<header
\* name, default Authorization>: <secret>} in api-key mode, and the empty
\* map otherwise; the request of a dispatch carries these headers.
C27_AuthHeadersSent ==
    /\ HandleAuthAsStated
    /\ ret.op \in DispatchOps => \A i \in 1..Len(sent) : CarriesAuth(sent[i])

\* C27, amended: handle_auth returns the header map of its mode as stated;
\* the request of a dispatch carries these headers, except that a header
\* which EXTRA_HEADERS also names carries the value given in EXTRA_HEADERS.
C27_AuthHeadersSentUnlessExtra ==
    /\ HandleAuthAsStated
    /\ ret.op \in DispatchOps => \A i \in 1..Len(sent) : CarriesAuthUnlessExtra(sent[i])

C27_Witness ==
    /\ ret.op \in DispatchOps
    /\ ApiKeyMode
    /\ env.API_AUTH_HEADER = <<"X","-","K">>
    /\ sent # <<>>
    /\ sent[1].headers = <<Entry(<<"X","-","K">>, env.API_KEY)>>

\* Each mode reaches a request
BearerRequestSent ==
    ret.op \in DispatchOps /\ BearerMode /\ env.API_AUTH_TYPE # <<>> /\ sent # <<>>
        /\ DictGet(sent[1].headers, H_Authorization) = S_Bearer \o env.API_KEY
ExtraHeaderReplacesAuth ==
    ret.op \in DispatchOps /\ BearerMode /\ sent # <<>>
        /\ DictGet(sent[1].headers, H_Authorization) = <<"b">>

-----------------------------------------------------------------------------
(* The prefixes that normalize_tool_name strips.                           *)

\* The segments of a path, and whether one of them is a recognized prefix
PathSegments(path) == Split(path, "/")
HasPrefixSegment(path) ==
    \E i \in 1..Len(PathSegments(path)) : PathSegments(path)[i] \in UrlPrefixWords
\* A segment that begins with a recognized prefix and goes on
BeginsWithPrefix(segment) ==
    \E w \in UrlPrefixWords : StartsWith(segment, w) /\ Len(segment) > Len(w)

RawMethod == Split1(ret.raw_name, " ")[1]
RawPath == Split1(ret.raw_name, " ")[2]

\* C28: only the segments api, rest and public are stripped from the path;
\* a path without such a segment, whatever its segments begin with, gives
\* the name made of all its segments.
C28_OnlyPrefixSegmentsStripped ==
    /\ ret.op = "normalize_tool_name"
    /\ Contains(ret.raw_name, " ")
    /\ ~HasPrefixSegment(RawPath)
    => ret.out.full = env.TOOL_NAME_PREFIX \o MethodAndStripped(RawMethod, RawPath)

\* The same of the paths that have no segment beginning with a prefix
SegmentsKeptUnlessPrefixLike ==
    /\ ret.op = "normalize_tool_name"
    /\ Contains(ret.raw_name, " ")
    /\ ~HasPrefixSegment(RawPath)
    /\ \A i \in 1..Len(PathSegments(RawPath)) : ~BeginsWithPrefix(PathSegments(RawPath)[i])
    => ret.out.full = env.TOOL_NAME_PREFIX \o MethodAndStripped(RawMethod, RawPath)
\* The segment api itself is stripped, at the head of the path
PrefixSegmentStripped ==
    /\ ret.op = "normalize_tool_name"
    /\ ret.raw_name = <<"G","E","T"," ","/","a","p","i","/","u">>
    => ret.out.full = env.TOOL_NAME_PREFIX \o <<"g","e","t","_","u">>

-----------------------------------------------------------------------------
(* What a dispatch changes.                                                *)

\* C29: a dispatch leaves the loaded spec and the registered tools, input
\* schemas included, as they were when the registry was built.
C29_DispatchLeavesSpecAndTools ==
    [][ret'.op \in DispatchOps
          => /\ openapi_spec_data' = openapi_spec_data
             /\ tools' = tools]_vars

\* The same of the tools alone, and of server_fastmcp.call_function, which
\* works on the spec it fetched for the call
DispatchLeavesTools ==
    [][ret'.op \in DispatchOps => tools' = tools]_vars
CallFunctionLeavesSpec ==
    [][ret'.op = "call_function" => openapi_spec_data' = openapi_spec_data]_vars
\* server_lowlevel.dispatcher_handler leaves the spec alone when it does not
\* get as far as the operation
EarlyReturnLeavesSpec ==
    [][ret'.op = "dispatcher_handler" /\ ret'.out.text \in UnresolvedTexts
          => openapi_spec_data' = openapi_spec_data]_vars

-----------------------------------------------------------------------------
(* The whitelist at dispatch time.                                         *)

RegisteredName == \E i \in 1..Len(tools) : tools[i].name = ret.function_name
WhitelistSet == env.TOOL_WHITELIST # <<>>

\* C30: with a whitelist set, the dispatch of a registered tool name
\* resolves to a whitelisted path and sends no request to a path that the
\* whitelist disallows, also when a disallowed path placed earlier in the
\* spec has the same tool name.
C30_DispatchStaysInsideWhitelist ==
    /\ ret.op \in DispatchOps
    /\ WhitelistSet
    /\ RegisteredName
    /\ ResolvedOperation # None
    => /\ sent # <<>> => is_tool_whitelisted(ResolvedOperation[1].path)
       /\ ret.op = "dispatcher_handler" => is_tool_whitelisted(ResolvedOperation[1].path)

\* server_fastmcp.call_function asks the whitelist before it sends
CallFunctionStaysInsideWhitelist ==
    /\ ret.op = "call_function"
    /\ ResolvedOperation # None
    /\ sent # <<>>
    => is_tool_whitelisted(ResolvedOperation[1].path)
\* A spec whose names are those of distinct paths keeps the dispatcher inside
SingleNameStaysInsideWhitelist ==
    /\ ret.op = "dispatcher_handler"
    /\ WhitelistSet
    /\ RegisteredName
    /\ ResolvedOperation # None
    /\ Len(openapi_spec_data[1].paths[1]) = 1
    => is_tool_whitelisted(ResolvedOperation[1].path)

\* server_lowlevel.dispatcher_handler has sent a request to a disallowed path
DisallowedRequestSent ==
    /\ ret.op = "dispatcher_handler"
    /\ WhitelistSet
    /\ RegisteredName
    /\ sent # <<>>
    /\ ~is_tool_whitelisted(ResolvedOperation[1].path)

=============================================================================
